---------------------------- MODULE Spec2Model ----------------------------
(***************************************************************************)
(* State-machine model of the topology assembly engine of                 *)
(* src/classes/topology/base.py: Vertex, Edge and Topology.               *)
(*                                                                         *)
(* Atom ids are rdkit atom indices (0-based): atom id i is element i+1 of  *)
(* the atom sequence of a molecule.  Coordinates are kept in the plane     *)
(* z = 0 and written <<x, y>>; distances are compared by their squares,    *)
(* which orders and ties them exactly as the Euclidean distance does.      *)
(***************************************************************************)
EXTENDS Integers, Sequences, FiniteSets, TLC

(***************************************************************************)
(* Bounds of the model.                                                    *)
(***************************************************************************)
\* A placed placeholder atom lies within this offset of its site in x and y.
MaxOffset == 1

\* atom_distance() results are drawn from 1..MaxDist.
MaxDist == 2

\* Longest list of candidates handed to the matching on its own.
MaxCandidates == 3

\* Most atoms of a molecule handed to final_sub on its own.
MaxAtoms == 3

(***************************************************************************)
(* Sites (Vertex and Edge objects) and the builds (Topology instances).    *)
(***************************************************************************)
Sites == {"V1", "V2", "V3", "V4", "E", "e1", "e2", "e3", "e4", "e5"}

Builds == {1, 2}

NoSites == [s \in Sites |-> <<>>]

(***************************************************************************)
(* The functional group registry FGInfo (imported by base.py, line 8).     *)
(*   Rh (45) stands for N (7), Y (39) stands for C (6).                    *)
(***************************************************************************)
functional_group_list ==
    << [heavy_atomic_num |-> 45, heavy_symbol |-> "Rh", target_atomic_num |-> 7],
       [heavy_atomic_num |-> 39, heavy_symbol |-> "Y", target_atomic_num |-> 6] >>

heavy_atomic_nums ==
    { functional_group_list[i].heavy_atomic_num : i \in DOMAIN functional_group_list }

double_bond_combs == { <<"Rh", "Y">> }

(***************************************************************************)
(* Building blocks (StructUnit instances): the atomic numbers of the atoms *)
(* of their heavy_mol, in atom-index order.                                *)
(***************************************************************************)
BlockAtoms(name) ==
    CASE name = "core3"   -> <<45, 45, 45, 6>>
      [] name = "core3b"  -> <<6, 45, 45, 45>>
      [] name = "core4"   -> <<45, 45, 45, 45>>
      [] name = "linker2" -> <<39, 39>>
      [] name = "linker0" -> <<6, 6>>
      [] OTHER            -> <<>>

BlockNames == {"core3", "core3b", "core4", "linker2", "linker0"}

\* The ids (0-based) of the placeholder atoms in an atom sequence, ascending.
RECURSIVE HeavyAtomsUpTo(_, _)
HeavyAtomsUpTo(atoms, n) ==
    IF n = 0 THEN <<>>
    ELSE IF atoms[n] \in heavy_atomic_nums
         THEN Append(HeavyAtomsUpTo(atoms, n - 1), n - 1)
         ELSE HeavyAtomsUpTo(atoms, n - 1)

\* building_block.heavy_ids: the placeholder atoms of the block's own heavy_mol.
BlockHeavyIds(name) == HeavyAtomsUpTo(BlockAtoms(name), Len(BlockAtoms(name)))

\* len(bb.find_functional_group_atoms()): one placeholder atom per group.
NumFunctionalGroups(name) == Len(BlockHeavyIds(name))


(***************************************************************************)
(* Static layouts: the Vertex and Edge objects a Topology subclass creates *)
(* in its class body.                                                      *)
(*   dimer    V1, V2 with 3 connections each, joined by the edge E;        *)
(*            e1..e4 run to the vertices W1 = (2, 0) and W2 = (2, 4),      *)
(*            which no build reaches and which are left out                *)
(*   vee      V1 has 2 connections, V2 has 1                               *)
(*   path     V1 and V2 have 1 connection each                             *)
(*   isolated V1 has no connection                                         *)
(*   monomer  V1 alone, with 3 connections, and the edge E                 *)
(*   fan      as monomer, with a linker on each of the three edges of V1   *)
(*   tetra    the four vertices V1..V4 with an edge between every two of   *)
(*            them: V3 and V4 stand where W1 and W2 do                     *)
(***************************************************************************)
Layouts == {"dimer", "monomer", "vee", "path", "isolated"}

\* Edge instances; every other site is a plain Vertex.
IsEdge(s) == s \in {"E", "e1", "e2", "e3", "e4", "e5"}

\* Vertex(x, y, z): self.coord; an Edge sits at the centroid of its vertices.
LayoutCoord ==
    [s \in Sites |->
        CASE s = "V1" -> <<0, 2>>
          [] s = "V2" -> <<4, 2>>
          [] s = "V3" -> <<2, 0>>
          [] s = "V4" -> <<2, 4>>
          [] s = "E"  -> <<2, 2>>
          [] s = "e1" -> <<1, 1>>
          [] s = "e2" -> <<1, 3>>
          [] s = "e3" -> <<3, 1>>
          [] s = "e4" -> <<3, 3>>
          [] s = "e5" -> <<2, 2>>]

\* self.connected after the Edge(v1, v2) constructors of the layout have run.
LayoutConnected(t) ==
    CASE t = "dimer" ->
            [s \in Sites |->
                CASE s = "V1" -> <<"E", "e1", "e2">>
                  [] s = "V2" -> <<"E", "e3", "e4">>
                  [] s = "E"  -> <<"V1", "V2">>
                  [] s = "e1" -> <<"V1">>
                  [] s = "e2" -> <<"V1">>
                  [] s = "e3" -> <<"V2">>
                  [] s = "e4" -> <<"V2">>
                  [] OTHER    -> <<>>]
      [] t = "tetra" ->
            [s \in Sites |->
                CASE s = "V1" -> <<"E", "e1", "e2">>
                  [] s = "V2" -> <<"E", "e3", "e4">>
                  [] s = "V3" -> <<"e1", "e3", "e5">>
                  [] s = "V4" -> <<"e2", "e4", "e5">>
                  [] s = "E"  -> <<"V1", "V2">>
                  [] s = "e1" -> <<"V1", "V3">>
                  [] s = "e2" -> <<"V1", "V4">>
                  [] s = "e3" -> <<"V2", "V3">>
                  [] s = "e4" -> <<"V2", "V4">>
                  [] s = "e5" -> <<"V3", "V4">>]
      [] t \in {"monomer", "fan"} ->
            [s \in Sites |->
                CASE s = "V1" -> <<"E", "e1", "e2">>
                  [] s = "E"  -> <<"V1">>
                  [] s = "e1" -> <<"V1">>
                  [] s = "e2" -> <<"V1">>
                  [] OTHER    -> <<>>]
      [] t = "vee" ->
            [s \in Sites |->
                CASE s = "V1" -> <<"E", "e1">>
                  [] s = "V2" -> <<"E">>
                  [] s = "E"  -> <<"V1", "V2">>
                  [] s = "e1" -> <<"V1">>
                  [] OTHER    -> <<>>]
      [] t = "path" ->
            [s \in Sites |->
                CASE s = "V1" -> <<"E">>
                  [] s = "V2" -> <<"E">>
                  [] s = "E"  -> <<"V1", "V2">>
                  [] OTHER    -> <<>>]
      [] OTHER -> NoSites

\* The class attributes the derived topology places blocks on.
LayoutPositionsA(t) ==
    IF t \in {"isolated", "monomer", "fan"} THEN <<"V1">>
    ELSE IF t = "tetra" THEN <<"V1", "V2", "V3", "V4">>
         ELSE <<"V1", "V2">>

LayoutPositionsB(t) ==
    IF t = "isolated" THEN <<>>
    ELSE IF t = "tetra" THEN <<"E", "e1", "e2", "e3", "e4", "e5">>
         ELSE IF t = "fan" THEN <<"E", "e1", "e2">>
              ELSE <<"E">>

(***************************************************************************)
(* State.                                                                  *)
(***************************************************************************)
VARIABLES
    \* Vertex / Edge attributes, one value per site object
    coord, connected, heavy_ids, atom_position_pairs, distances,
    \* class attributes of the derived Topology
    positions_A, positions_B,
    \* per Topology instance (build)
    pc,               \* position of build() : ready, placeA, placeB, join, bond, sub, done, failed
    idx,              \* index of the next site in the running for-loop
    err,              \* the exception that ended the build, or "none"
    building_blocks,  \* macro_mol.building_blocks
    role,             \* the locals bb, lk, n_bb, n_lk of place_mols
    heavy_mol,        \* atoms of macro_mol.heavy_mol (atomic numbers by atom index)
    heavy_bonds,      \* bonds of macro_mol.heavy_mol added by assembly
    editable_mol,     \* bonds of the local editable_mol of join_mols
    paired,           \* the local set paired of join_mols
    prist_mol,        \* atoms of macro_mol.prist_mol, <<>> before final_sub
    bonds_made, bb_counter,
    bb_centroid,      \* where the heavy-atom centroid of each building block sits
    flip,             \* the sign chosen by the last Edge.place_mol on each site
    \* history
    stages,           \* the stages build() has entered, in order
    accepted,         \* for each bond added: the site, distance, and atoms
    writer,           \* the build that last wrote the scratch fields of a site
    foreign_read,     \* whether a build has read scratch data another build wrote
    \* a single call of one operation outside a build
    call              \* the operation, its arguments and, once it has run, its result

siteVars == <<coord, connected, heavy_ids, atom_position_pairs, distances>>

topoVars == <<positions_A, positions_B>>

molVars == <<heavy_mol, heavy_bonds, editable_mol, paired, prist_mol>>

histVars == <<stages, accepted, writer, foreign_read>>

buildVars == <<siteVars, topoVars, pc, idx, err, building_blocks, role, molVars,
               bonds_made, bb_counter, bb_centroid, flip, histVars>>

vars == <<buildVars, call>>

(***************************************************************************)
(* Sorting as Python sorts tuples.                                         *)
(***************************************************************************)
\* The order of (distance, atom id, atom id) tuples: element by element.
TupleLess(t, u) ==
    \/ t[1] < u[1]
    \/ t[1] = u[1] /\ t[2] < u[2]
    \/ t[1] = u[1] /\ t[2] = u[2] /\ t[3] < u[3]

\* The order of (distance, heavy_id, position) tuples that differ in distance
\* or heavy_id; the positions are never reached then.
PositionTupleLess(t, u) ==
    \/ t[1] < u[1]
    \/ t[1] = u[1] /\ t[2] < u[2]

\* Two tuples that agree on distance and heavy_id make the sort compare
\* their positions: Vertex defines no order, and Python raises TypeError.
SortRaisesTypeError(seq) ==
    \E i, j \in DOMAIN seq :
        /\ i < j
        /\ seq[i][1] = seq[j][1]
        /\ seq[i][2] = seq[j][2]
        /\ seq[i][3] # seq[j][3]

IntLess(a, b) == a < b

\* The comparison a sort uses: by the kind of element it sorts.
LessBy(kind, t, u) ==
    CASE kind = "tuple" -> TupleLess(t, u)
      [] kind = "position" -> PositionTupleLess(t, u)
      [] kind = "id" -> IntLess(t, u)

RECURSIVE InsertSorted(_, _, _)
InsertSorted(kind, sorted, t) ==
    IF sorted = <<>> THEN <<t>>
    ELSE IF LessBy(kind, t, sorted[Len(sorted)])
         THEN Append(InsertSorted(kind, SubSeq(sorted, 1, Len(sorted) - 1), t),
                     sorted[Len(sorted)])
         ELSE Append(sorted, t)

\* A stable sort: equal elements keep their order.
RECURSIVE SortBy(_, _)
SortBy(kind, seq) ==
    IF seq = <<>> THEN <<>>
    ELSE InsertSorted(kind, SortBy(kind, SubSeq(seq, 1, Len(seq) - 1)), seq[Len(seq)])

\* A variant that takes the triples in the order they were appended; the
\* amended C4 does not hold of it.
UnsortedDistances(seq) == seq

\* sorted(position.distances)
SortedDistances(seq) == SortBy("tuple", seq)

\* distances.sort() of pair_heavy_ids_with_connected, when it does not raise
SortedPositionDistances(seq) == SortBy("position", seq)

\* sorted(heavy_ids)
SortedIds(seq) == SortBy("id", seq)

\* deque(maxlen=n) after appending the elements of seq: the last n of them.
DequeMaxlen(seq, n) ==
    IF Len(seq) <= n THEN seq ELSE SubSeq(seq, Len(seq) - n + 1, Len(seq))

(***************************************************************************)
(* Geometry.                                                               *)
(***************************************************************************)
\* euclidean(p, q), squared
SqDist(p, q) == (p[1] - q[1]) * (p[1] - q[1]) + (p[2] - q[2]) * (p[2] - q[2])

\* The places a placeholder atom of a block placed on a site may lie.
AtomCoordsNear(c) ==
    { <<c[1] + dx, c[2] + dy>> : dx \in (0 - MaxOffset)..MaxOffset,
                                 dy \in (0 - MaxOffset)..MaxOffset }

\* The number of vectors edge_direction_vectors yields: one for each
\* 2-combination of self.connected.
NumEdgeDirectionVectors(conn) ==
    Cardinality({ p \in (DOMAIN conn) \X (DOMAIN conn) : p[1] < p[2] })

\* A variant that asks for one direction vector only; the amended C8 does
\* not hold of it.
EdgePlaneNormalRaisesWithoutVectors(conn) == NumEdgeDirectionVectors(conn) < 1

\* v1, v2 = itertools.islice(self.edge_direction_vectors(), 2) unpacks
\* exactly two vectors; with fewer the unpacking raises ValueError.
EdgePlaneNormalRaises(conn) == NumEdgeDirectionVectors(conn) < 2

\* Vertex.place_mol: the exception it raises ("none" when it returns) and
\* where it leaves the centroid of the heavy atoms of the building block.
VertexPlaceMol(site, block, conn, centroid) ==
    IF EdgePlaneNormalRaises(conn)
    THEN [err |-> "ValueError", centroid |-> centroid]
    ELSE IF BlockHeavyIds(block) = <<>>
         THEN [err |-> "IndexError", centroid |-> "origin"]
         ELSE [err |-> "none", centroid |-> site]

\* Edge.place_mol: no step of it raises; the centroid is put on the edge.
EdgePlaceMol(site, block, conn, centroid) ==
    [err |-> "none", centroid |-> site]

\* position.place_mol(block) dispatches on the class of the site.
PlaceMol(site, block, conn, centroid) ==
    IF IsEdge(site)
    THEN EdgePlaceMol(site, block, conn, centroid)
    ELSE VertexPlaceMol(site, block, conn, centroid)

\* A variant that always draws +1; C26 does not hold of it.
FlipChoicesPlusOnly(site) == IF IsEdge(site) THEN {1} ELSE {0}

\* The signs np.random.choice([1,-1]) draws from; 0 stands for no draw.
FlipChoices(site) == IF IsEdge(site) THEN {1, -1} ELSE {0}

(***************************************************************************)
(* pair_heavy_ids_with_connected                                           *)
(***************************************************************************)
\* The list distances: for heavy_id in vertex.heavy_ids, for position in
\* vertex.connected, the tuple (distance, heavy_id, position).
PositionDistances(hids, conn, atom_coords, site_coord) ==
    [k \in 1..(Len(hids) * Len(conn)) |->
        LET heavy_id == hids[((k - 1) \div Len(conn)) + 1]
            position == conn[((k - 1) % Len(conn)) + 1]
        IN  <<SqDist(atom_coords[heavy_id], site_coord[position]), heavy_id, position>>]

\* A variant that lets one connected position be taken by several atoms;
\* C3 does not hold of it.
PositionClaimedIdOnly(paired_ids, paired_pos, heavy_id, pos) ==
    heavy_id \in paired_ids

\* A variant that lets one heavy id be paired with several positions; C11
\* does not hold of it.
PositionClaimedPositionOnly(paired_ids, paired_pos, heavy_id, pos) ==
    pos \in paired_pos

\* Whether a candidate is skipped: one of its two keys is already claimed.
PositionClaimed(paired_ids, paired_pos, heavy_id, pos) ==
    heavy_id \in paired_ids \/ pos \in paired_pos

RECURSIVE GreedyPositionPairs(_, _, _, _, _)
GreedyPositionPairs(sorted, i, paired_ids, paired_pos, out) ==
    IF i > Len(sorted) THEN out
    ELSE LET heavy_id == sorted[i][2]
             pos == sorted[i][3]
         IN  IF PositionClaimed(paired_ids, paired_pos, heavy_id, pos)
             THEN GreedyPositionPairs(sorted, i + 1, paired_ids, paired_pos, out)
             ELSE GreedyPositionPairs(sorted, i + 1, paired_ids \cup {heavy_id},
                                      paired_pos \cup {pos},
                                      Append(out, <<heavy_id, pos>>))

\* A variant whose loop stops one candidate short; C12 does not hold of it.
SortAndMatchButLast(cands) ==
    IF SortRaisesTypeError(cands)
    THEN [err |-> "TypeError", pairs |-> <<>>]
    ELSE [err |-> "none",
          pairs |-> GreedyPositionPairs(SortedPositionDistances(cands), 2, {}, {}, <<>>)]

\* distances.sort() and the loop after it, on any list of candidates.
SortAndMatch(cands) ==
    IF SortRaisesTypeError(cands)
    THEN [err |-> "TypeError", pairs |-> <<>>]
    ELSE [err |-> "none",
          pairs |-> GreedyPositionPairs(SortedPositionDistances(cands), 1, {}, {}, <<>>)]

\* The whole method: vertex.atom_position_pairs when it returns, and the
\* empty list it has already assigned when the sort raises.
PairHeavyIdsWithConnected(hids, conn, atom_coords, site_coord) ==
    SortAndMatch(PositionDistances(hids, conn, atom_coords, site_coord))

(***************************************************************************)
(* determine_bond_type                                                     *)
(***************************************************************************)
\* A variant that answers with the first entry of the registry when no entry
\* has the atomic number; the amended C7 does not hold of it.
HeavySymbolOrFirst(atomic_n) ==
    LET hits == { i \in DOMAIN functional_group_list :
                    functional_group_list[i].heavy_atomic_num = atomic_n }
    IN  IF hits = {} THEN functional_group_list[1].heavy_symbol
        ELSE functional_group_list[CHOOSE i \in hits : \A j \in hits : i <= j].heavy_symbol

\* next(x.heavy_symbol for x in FGInfo.functional_group_list
\*      if atomic_n == x.heavy_atomic_num): the first match, and
\* StopIteration when there is none.
HeavySymbol(atomic_n) ==
    LET hits == { i \in DOMAIN functional_group_list :
                    functional_group_list[i].heavy_atomic_num = atomic_n }
    IN  IF hits = {} THEN "StopIteration"
        ELSE functional_group_list[CHOOSE i \in hits : \A j \in hits : i <= j].heavy_symbol

\* A variant that compares the symbols with the entries in one order only;
\* C16 does not hold of it.
DetermineBondTypeOrdered(combs, mol, atom1_id, atom2_id) ==
    IF atom1_id + 1 \notin DOMAIN mol \/ atom2_id + 1 \notin DOMAIN mol
    THEN "RuntimeError"
    ELSE LET atom1_symbol == HeavySymbol(mol[atom1_id + 1])
             atom2_symbol == HeavySymbol(mol[atom2_id + 1])
         IN  IF atom1_symbol = "StopIteration" \/ atom2_symbol = "StopIteration"
             THEN "StopIteration"
             ELSE IF \E tup \in combs : <<atom1_symbol, atom2_symbol>> = tup
                  THEN "DOUBLE"
                  ELSE "SINGLE"

\* The bond type returned, or the name of the exception raised, with combs
\* for FGInfo.double_bond_combs.
DetermineBondTypeWith(combs, mol, atom1_id, atom2_id) ==
    IF atom1_id + 1 \notin DOMAIN mol \/ atom2_id + 1 \notin DOMAIN mol
    THEN "RuntimeError"
    ELSE LET atom1_symbol == HeavySymbol(mol[atom1_id + 1])
             atom2_symbol == HeavySymbol(mol[atom2_id + 1])
         IN  IF atom1_symbol = "StopIteration" \/ atom2_symbol = "StopIteration"
             THEN "StopIteration"
             ELSE IF \E tup \in combs :
                        \/ <<atom1_symbol, atom2_symbol>> = tup
                        \/ <<atom2_symbol, atom1_symbol>> = tup
                  THEN "DOUBLE"
                  ELSE "SINGLE"

\* determine_bond_type with the registry of the builds.
DetermineBondType(mol, atom1_id, atom2_id) ==
    DetermineBondTypeWith(double_bond_combs, mol, atom1_id, atom2_id)

BondTypes == {"SINGLE", "DOUBLE"}

(***************************************************************************)
(* join_mols                                                               *)
(***************************************************************************)
\* A variant that measures every atom of the site against the atoms of the
\* neighbour of the first pair; C23 does not hold of it.
RECURSIVE SiteCandidatesOfFirst(_, _)
SiteCandidatesOfFirst(pairs, hids) ==
    IF pairs = <<>> THEN <<>>
    ELSE LET atom_id == pairs[Len(pairs)][1]
             vertex == pairs[1][2]
         IN  SiteCandidatesOfFirst(SubSeq(pairs, 1, Len(pairs) - 1), hids)
                \o [k \in DOMAIN hids[vertex] |-> <<atom_id, hids[vertex][k]>>]

\* The (atom_id, atom2_id) pairs the first loop of join_mols measures for
\* one site: for each pair of atom_position_pairs, each atom of the vertex.
RECURSIVE SiteCandidates(_, _)
SiteCandidates(pairs, hids) ==
    IF pairs = <<>> THEN <<>>
    ELSE LET atom_id == pairs[Len(pairs)][1]
             vertex == pairs[Len(pairs)][2]
         IN  SiteCandidates(SubSeq(pairs, 1, Len(pairs) - 1), hids)
                \o [k \in DOMAIN hids[vertex] |-> <<atom_id, hids[vertex][k]>>]

\* A variant of the test that forgets the first member of the candidate;
\* C22 does not hold of it.
AlreadyPairedSecondOnly(claimed, atom1_id, atom2_id) ==
    atom2_id \in claimed

\* A variant of the test that forgets the second member of the candidate;
\* C1 does not hold of it.
AlreadyPairedFirstOnly(claimed, atom1_id, atom2_id) ==
    atom1_id \in claimed

\* if atom1_id in paired or atom2_id in paired: continue
AlreadyPaired(claimed, atom1_id, atom2_id) ==
    atom1_id \in claimed \/ atom2_id \in claimed

\* A variant that leaves the counter alone; C2 does not hold of it.
BondsMadeNotIncremented(n) == n

\* self.bonds_made += 1
IncrementBondsMade(n) == n + 1

\* The body of "for _, atom1_id, atom2_id in sorted(position.distances)" run
\* from tuple i on; st holds editable_mol's bonds, paired, bonds_made, the
\* exception raised and the history of accepted tuples.
RECURSIVE BondLoop(_, _, _, _, _)
BondLoop(mol, position, sorted, i, st) ==
    IF i > Len(sorted) \/ st.err # "none" THEN st
    ELSE LET atom1_id == sorted[i][2]
             atom2_id == sorted[i][3]
         IN  IF AlreadyPaired(st.paired, atom1_id, atom2_id)
             THEN BondLoop(mol, position, sorted, i + 1, st)
             ELSE LET bond_type == DetermineBondType(mol, atom1_id, atom2_id)
                  IN  IF bond_type \notin BondTypes
                      THEN [st EXCEPT !.err = bond_type]
                      ELSE BondLoop(mol, position, sorted, i + 1,
                             [bonds |-> Append(st.bonds, <<atom1_id, atom2_id, bond_type>>),
                              paired |-> st.paired \cup {atom1_id, atom2_id},
                              made |-> IncrementBondsMade(st.made),
                              err |-> "none",
                              log |-> Append(st.log,
                                        [site |-> position, distance |-> sorted[i][1],
                                         atom1 |-> atom1_id, atom2 |-> atom2_id])])

\* One iteration of "for position in self.positions_A" of the second loop.
BondSite(mol, position, dists, st) ==
    BondLoop(mol, position, SortedDistances(dists), 1, st)

(***************************************************************************)
(* final_sub                                                               *)
(***************************************************************************)
\* The placeholder elements of a registry.
HeavyNumsOf(registry) == { registry[i].heavy_atomic_num : i \in DOMAIN registry }

\* A variant that reads the wrong attribute of the entry; C14 does not hold
\* of it.
HeavyAtomicNumIn(registry, atomic_num) ==
    LET hits == { i \in DOMAIN registry : registry[i].heavy_atomic_num = atomic_num }
    IN  registry[CHOOSE i \in hits : \A j \in hits : i <= j].heavy_atomic_num

\* next(x.target_atomic_num for x in FGInfo.functional_group_list
\*      if x.heavy_atomic_num == atomic_num)
TargetAtomicNumIn(registry, atomic_num) ==
    LET hits == { i \in DOMAIN registry : registry[i].heavy_atomic_num = atomic_num }
    IN  registry[CHOOSE i \in hits : \A j \in hits : i <= j].target_atomic_num

\* The atoms of prist_mol after the substitution loop, one pass over the
\* atoms.  The hydrogens AddHs appends are left out: hydrogen is no
\* placeholder element of any registry considered.
SubstitutedWith(registry, mol) ==
    [i \in DOMAIN mol |->
        IF mol[i] \in HeavyNumsOf(registry)
        THEN TargetAtomicNumIn(registry, mol[i])
        ELSE mol[i]]

TargetAtomicNum(atomic_num) == TargetAtomicNumIn(functional_group_list, atomic_num)

\* final_sub with the registry of the builds.
Substituted(mol) == SubstitutedWith(functional_group_list, mol)

(***************************************************************************)
(* Topology.__init__ and the class-level layout.                           *)
(***************************************************************************)
Range(seq) == { seq[i] : i \in DOMAIN seq }

\* The lists of building blocks a macromolecule is created with.
BlockLists ==
    { <<"core3", "linker2">>,
      <<"core3", "linker0">>,
      <<"core3", "linker0", "linker2">> }

\* self.bonds_made = 0
InitialBondsMade == 0

\* No operation is called outside the builds.
NoCall == [fn |-> "none"]

\* The sites, the builds and their molecules before any build() has run.
InitBuilds(layout, blocks) ==
    /\ coord = LayoutCoord
    /\ connected = LayoutConnected(layout)
    /\ heavy_ids = NoSites
    /\ atom_position_pairs = NoSites
    /\ distances = NoSites
    /\ positions_A = LayoutPositionsA(layout)
    /\ positions_B = LayoutPositionsB(layout)
    /\ pc = [b \in Builds |-> "ready"]
    /\ idx = [b \in Builds |-> 0]
    /\ err = [b \in Builds |-> "none"]
    /\ building_blocks = blocks
    /\ role = [b \in Builds |-> [bb |-> "", lk |-> "", n_bb |-> 0, n_lk |-> 0]]
    /\ heavy_mol = [b \in Builds |-> <<>>]
    /\ heavy_bonds = [b \in Builds |-> <<>>]
    /\ editable_mol = [b \in Builds |-> <<>>]
    /\ paired = [b \in Builds |-> {}]
    /\ prist_mol = [b \in Builds |-> <<>>]
    /\ bonds_made = [b \in Builds |-> InitialBondsMade]
    /\ bb_counter = [b \in Builds |-> [n \in BlockNames |-> 0]]
    /\ bb_centroid = [b \in Builds |-> [n \in BlockNames |-> "initial"]]
    /\ flip = [b \in Builds |-> [s \in Sites |-> 0]]
    /\ stages = [b \in Builds |-> <<>>]
    /\ accepted = [b \in Builds |-> <<>>]
    /\ writer = [s \in Sites |-> [heavy_ids |-> 0, atom_position_pairs |-> 0, distances |-> {}]]
    /\ foreign_read = [b \in Builds |-> FALSE]

InitWith(layout, blocks) ==
    /\ InitBuilds(layout, blocks)
    /\ call = NoCall

\* One macromolecule is built; the second Topology instance is never run.
Init ==
    \E layout \in Layouts, blocks \in BlockLists :
        InitWith(layout, [b \in Builds |-> blocks])

\* Two macromolecules of the same topology class, hence on the same sites.
InitShared ==
    InitWith("monomer", [b \in Builds |-> IF b = 1 THEN <<"core3", "linker2">>
                                                 ELSE <<"core3b", "linker2">>])

(***************************************************************************)
(* build: place_mols, join_mols, final_sub                                 *)
(***************************************************************************)
\* A variant of build() that goes from place_mols straight to final_sub; C9
\* does not hold of it.
StageSkippingJoinMols == "sub"

\* build() calls self.join_mols() when place_mols has returned ...
StageAfterPlaceMols == "join"

\* ... and self.final_sub() when join_mols has returned.
StageAfterJoinMols == "sub"

Fail(b, e) ==
    /\ pc' = [pc EXCEPT ![b] = "failed"]
    /\ err' = [err EXCEPT ![b] = e]

\* A variant that takes the first block for positions_A whatever the counts;
\* C15 does not hold of it.
AssignRolesInOrder(bb1, bb2) ==
    [lk |-> bb2, n_lk |-> NumFunctionalGroups(bb2),
     bb |-> bb1, n_bb |-> NumFunctionalGroups(bb1)]

\* The building block with more functional groups is bb, the other lk.
AssignRoles(bb1, bb2) ==
    LET n_fg1 == NumFunctionalGroups(bb1)
        n_fg2 == NumFunctionalGroups(bb2)
    IN  IF n_fg1 < n_fg2
        THEN [lk |-> bb1, n_lk |-> n_fg1, bb |-> bb2, n_bb |-> n_fg2]
        ELSE [lk |-> bb2, n_lk |-> n_fg2, bb |-> bb1, n_bb |-> n_fg1]

\* The loop place_mols runs next when positions_A is exhausted.
AfterPositionsA == IF positions_B # <<>> THEN "placeB" ELSE StageAfterPlaceMols

\* place_mols up to its first loop: the empty molecule and the two roles.
PlaceMolsBegin(b) ==
    /\ pc[b] = "ready"
    /\ UNCHANGED call
    /\ Len(building_blocks[b]) >= 2
    /\ heavy_mol' = [heavy_mol EXCEPT ![b] = <<>>]
    /\ role' = [role EXCEPT ![b] = AssignRoles(building_blocks[b][1], building_blocks[b][2])]
    /\ pc' = [pc EXCEPT ![b] = IF positions_A # <<>> THEN "placeA" ELSE AfterPositionsA]
    /\ idx' = [idx EXCEPT ![b] = 1]
    /\ stages' = [stages EXCEPT ![b] = Append(@, "place_mols")]
    /\ UNCHANGED <<siteVars, topoVars, err, building_blocks, heavy_bonds, editable_mol,
                   paired, prist_mol, bonds_made, bb_counter, bb_centroid, flip,
                   accepted, writer, foreign_read>>

\* The places of the atoms ids, as atom_coords returns them after the block
\* was put on the site.  An atom equidistant from two neighbours of the site
\* makes the sort of pair_heavy_ids_with_connected raise wherever the other
\* atoms lie, and no coordinate is kept, so one such choice stands for all.
AtomCoordChoices(ids, position) ==
    LET near == AtomCoordsNear(coord[position])
        tied == { p \in near :
                    \E i, j \in DOMAIN connected[position] :
                        /\ connected[position][i] # connected[position][j]
                        /\ SqDist(p, coord[connected[position][i]])
                             = SqDist(p, coord[connected[position][j]]) }
    IN  [ids -> near \ tied]
          \cup (IF tied = {} \/ ids = {} THEN {}
                ELSE { [h \in ids |-> CHOOSE p \in tied : TRUE] })

\* A variant that flushes the list of every site; C25 does not hold of it.
FlushedEverywhere(site) == [s \in Sites |-> <<>>]

\* A variant that leaves the list as the last build left it; C29 does not
\* hold of it.
NotFlushed(site) == distances

\* self.distances = [] at the start of place_mol
Flushed(site) == [distances EXCEPT ![site] = <<>>]

\* A variant that keeps the oldest n placeholder atoms of the composite;
\* C24 does not hold of it.
OldestHeavyIds(mol, n) ==
    LET ids == HeavyAtomsUpTo(mol, Len(mol))
    IN  IF Len(ids) <= n THEN ids ELSE SubSeq(ids, 1, n)

\* The ids recorded for a site: the newest n placeholder atoms of the composite.
NewestHeavyIds(mol, n) == DequeMaxlen(HeavyAtomsUpTo(mol, Len(mol)), n)

\* The heavy ids the next site of positions_A gets.
NextHeavyIdsA(b) ==
    SortedIds(NewestHeavyIds(heavy_mol[b] \o BlockAtoms(role[b].bb), role[b].n_bb))

\* One iteration of "for position in self.positions_A", atom_coords being
\* one of atom_coord_choices.
PlaceAOver(b, atom_coord_choices) ==
    /\ pc[b] = "placeA"
    /\ UNCHANGED call
    /\ LET position == positions_A[idx[b]]
           block == role[b].bb
           placed == PlaceMol(position, block, connected[position], bb_centroid[b][block])
           mol == heavy_mol[b] \o BlockAtoms(block)
           hids == SortedIds(NewestHeavyIds(mol, role[b].n_bb))
       IN  /\ distances' = Flushed(position)
           /\ bb_centroid' = [bb_centroid EXCEPT ![b][block] = placed.centroid]
           /\ IF placed.err # "none"
              THEN /\ Fail(b, placed.err)
                   /\ writer' = [writer EXCEPT ![position].distances = {}]
                   /\ UNCHANGED <<heavy_ids, atom_position_pairs, heavy_mol, bb_counter,
                                  flip, idx>>
              ELSE \E sign \in FlipChoices(position),
                      atom_coords \in atom_coord_choices :
                      LET match == PairHeavyIdsWithConnected(hids, connected[position],
                                                             atom_coords, coord)
                      IN  /\ flip' = [flip EXCEPT ![b][position] = sign]
                          /\ heavy_mol' = [heavy_mol EXCEPT ![b] = mol]
                          /\ bb_counter' = [bb_counter EXCEPT ![b][block] = @ + 1]
                          /\ heavy_ids' = [heavy_ids EXCEPT ![position] = hids]
                          /\ atom_position_pairs' =
                                [atom_position_pairs EXCEPT ![position] = match.pairs]
                          /\ writer' = [writer EXCEPT ![position] =
                                          [heavy_ids |-> b, atom_position_pairs |-> b,
                                           distances |-> {}]]
                          /\ IF match.err # "none"
                             THEN Fail(b, match.err) /\ UNCHANGED idx
                             ELSE /\ err' = err
                                  /\ IF idx[b] < Len(positions_A)
                                     THEN /\ idx' = [idx EXCEPT ![b] = @ + 1]
                                          /\ pc' = pc
                                     ELSE /\ idx' = [idx EXCEPT ![b] = 1]
                                          /\ pc' = [pc EXCEPT ![b] = AfterPositionsA]
    /\ UNCHANGED <<coord, connected, topoVars, building_blocks, role, heavy_bonds,
                   editable_mol, paired, prist_mol, bonds_made, stages, accepted,
                   foreign_read>>

\* One iteration of the first loop, wherever the atoms of the block lie.
PlaceA(b) ==
    PlaceAOver(b, AtomCoordChoices(Range(NextHeavyIdsA(b)), positions_A[idx[b]]))

\* One iteration of "for position in self.positions_B".
PlaceB(b) ==
    /\ pc[b] = "placeB"
    /\ UNCHANGED call
    /\ LET position == positions_B[idx[b]]
           block == role[b].lk
           placed == PlaceMol(position, block, connected[position], bb_centroid[b][block])
           mol == heavy_mol[b] \o BlockAtoms(block)
           hids == NewestHeavyIds(mol, role[b].n_lk)
       IN  /\ distances' = Flushed(position)
           /\ bb_centroid' = [bb_centroid EXCEPT ![b][block] = placed.centroid]
           /\ IF placed.err # "none"
              THEN /\ Fail(b, placed.err)
                   /\ writer' = [writer EXCEPT ![position].distances = {}]
                   /\ UNCHANGED <<heavy_ids, heavy_mol, bb_counter, flip, idx>>
              ELSE \E sign \in FlipChoices(position) :
                      /\ flip' = [flip EXCEPT ![b][position] = sign]
                      /\ heavy_mol' = [heavy_mol EXCEPT ![b] = mol]
                      /\ bb_counter' = [bb_counter EXCEPT ![b][block] = @ + 1]
                      /\ heavy_ids' = [heavy_ids EXCEPT ![position] = hids]
                      /\ writer' = [writer EXCEPT ![position].heavy_ids = b,
                                                  ![position].distances = {}]
                      /\ err' = err
                      /\ IF idx[b] < Len(positions_B)
                         THEN /\ idx' = [idx EXCEPT ![b] = @ + 1]
                              /\ pc' = pc
                         ELSE /\ idx' = [idx EXCEPT ![b] = 1]
                              /\ pc' = [pc EXCEPT ![b] = StageAfterPlaceMols]
    /\ UNCHANGED <<coord, connected, atom_position_pairs, topoVars, building_blocks, role,
                   heavy_bonds, editable_mol, paired, prist_mol, bonds_made, stages,
                   accepted, foreign_read>>

\* The candidates of every site of positions_A, as a set of atom pairs.
JoinCandidatePairs ==
    UNION { Range(SiteCandidates(atom_position_pairs[p], heavy_ids)) :
              p \in Range(positions_A) }

\* The sites whose heavy_ids the first loop of join_mols reads.
JoinNeighbours ==
    UNION { { atom_position_pairs[p][k][2] : k \in DOMAIN atom_position_pairs[p] } :
              p \in Range(positions_A) }

\* Whether build b would read, in join_mols, scratch data of another build.
ReadsForeign(b) ==
    \/ \E p \in Range(positions_A) : writer[p].atom_position_pairs \notin {0, b}
    \/ \E v \in JoinNeighbours : writer[v].heavy_ids \notin {0, b}
    \/ \E p \in Range(positions_A) : writer[p].distances \ {b} # {}

\* join_mols up to "paired = set()": the editable copy, and the first loop,
\* which appends (distance, atom_id, atom2_id) to position.distances.
JoinDistancesOver(b, atom_distances) ==
    /\ pc[b] = "join"
    /\ UNCHANGED call
    /\ stages' = [stages EXCEPT ![b] = Append(@, "join_mols")]
    /\ editable_mol' = [editable_mol EXCEPT ![b] = heavy_bonds[b]]
    /\ paired' = [paired EXCEPT ![b] = {}]
    /\ foreign_read' = [foreign_read EXCEPT ![b] = @ \/ ReadsForeign(b)]
    /\ IF \E c \in JoinCandidatePairs :
             c[1] + 1 \notin DOMAIN heavy_mol[b] \/ c[2] + 1 \notin DOMAIN heavy_mol[b]
       THEN \* atom_distance is asked for an atom the molecule does not have
            /\ Fail(b, "RuntimeError")
            /\ UNCHANGED <<distances, writer, idx, heavy_bonds>>
       ELSE \E atom_distance \in atom_distances :
               /\ distances' =
                     [s \in Sites |->
                        IF s \in Range(positions_A)
                        THEN LET cands == SiteCandidates(atom_position_pairs[s], heavy_ids)
                             IN  distances[s] \o
                                 [k \in DOMAIN cands |->
                                    <<atom_distance[cands[k]], cands[k][1], cands[k][2]>>]
                        ELSE distances[s]]
               /\ writer' = [s \in Sites |->
                               IF s \in Range(positions_A)
                               THEN [writer[s] EXCEPT !.distances = @ \cup {b}]
                               ELSE writer[s]]
               /\ err' = err
               /\ idx' = [idx EXCEPT ![b] = 1]
               /\ IF positions_A # <<>>
                  THEN pc' = [pc EXCEPT ![b] = "bond"] /\ UNCHANGED heavy_bonds
                  ELSE /\ pc' = [pc EXCEPT ![b] = StageAfterJoinMols]
                       /\ heavy_bonds' = [heavy_bonds EXCEPT ![b] = heavy_bonds[b]]
    /\ UNCHANGED <<coord, connected, heavy_ids, atom_position_pairs, topoVars,
                   building_blocks, role, heavy_mol, prist_mol, bonds_made, bb_counter,
                   bb_centroid, flip, accepted>>

\* The first part of join_mols, whatever atom_distance returns for each
\* candidate.
JoinDistances(b) == JoinDistancesOver(b, [JoinCandidatePairs -> 1..MaxDist])

\* One iteration of the second "for position in self.positions_A" of
\* join_mols; after the last one, macro_mol.heavy_mol = editable_mol.GetMol().
JoinBond(b) ==
    /\ pc[b] = "bond"
    /\ UNCHANGED call
    /\ LET position == positions_A[idx[b]]
           st == BondSite(heavy_mol[b], position, distances[position],
                          [bonds |-> editable_mol[b], paired |-> paired[b],
                           made |-> bonds_made[b], err |-> "none", log |-> accepted[b]])
       IN  /\ editable_mol' = [editable_mol EXCEPT ![b] = st.bonds]
           /\ paired' = [paired EXCEPT ![b] = st.paired]
           /\ bonds_made' = [bonds_made EXCEPT ![b] = st.made]
           /\ accepted' = [accepted EXCEPT ![b] = st.log]
           /\ foreign_read' = [foreign_read EXCEPT ![b] =
                                 @ \/ (writer[position].distances \ {b} # {})]
           /\ IF st.err # "none"
              THEN Fail(b, st.err) /\ UNCHANGED <<idx, heavy_bonds>>
              ELSE /\ err' = err
                   /\ IF idx[b] < Len(positions_A)
                      THEN /\ idx' = [idx EXCEPT ![b] = @ + 1]
                           /\ pc' = pc
                           /\ UNCHANGED heavy_bonds
                      ELSE /\ idx' = [idx EXCEPT ![b] = 1]
                           /\ pc' = [pc EXCEPT ![b] = StageAfterJoinMols]
                           /\ heavy_bonds' = [heavy_bonds EXCEPT ![b] = st.bonds]
    /\ UNCHANGED <<siteVars, topoVars, building_blocks, role, heavy_mol, prist_mol,
                   bb_counter, bb_centroid, flip, stages, writer>>

\* A variant in which prist_mol is the molecule itself and not a copy of it,
\* so that the substitution shows in heavy_mol; C27 does not hold of it.
FinalSubInPlace(b) ==
    /\ pc[b] = "sub"
    /\ UNCHANGED call
    /\ stages' = [stages EXCEPT ![b] = Append(@, "final_sub")]
    /\ prist_mol' = [prist_mol EXCEPT ![b] = Substituted(heavy_mol[b])]
    /\ heavy_mol' = [heavy_mol EXCEPT ![b] = Substituted(heavy_mol[b])]
    /\ pc' = [pc EXCEPT ![b] = "done"]
    /\ UNCHANGED <<siteVars, topoVars, idx, err, building_blocks, role,
                   heavy_bonds, editable_mol, paired, bonds_made, bb_counter,
                   bb_centroid, flip, accepted, writer, foreign_read>>

\* final_sub: the pristine copy with every placeholder atom substituted.
FinalSub(b) ==
    /\ pc[b] = "sub"
    /\ UNCHANGED call
    /\ stages' = [stages EXCEPT ![b] = Append(@, "final_sub")]
    /\ prist_mol' = [prist_mol EXCEPT ![b] = Substituted(heavy_mol[b])]
    /\ pc' = [pc EXCEPT ![b] = "done"]
    /\ UNCHANGED <<siteVars, topoVars, idx, err, building_blocks, role, heavy_mol,
                   heavy_bonds, editable_mol, paired, bonds_made, bb_counter,
                   bb_centroid, flip, accepted, writer, foreign_read>>

\* A step of build() of Topology instance b.
BuildStep(b) ==
    \/ PlaceMolsBegin(b)
    \/ PlaceA(b)
    \/ PlaceB(b)
    \/ JoinDistances(b)
    \/ JoinBond(b)
    \/ FinalSub(b)

Next == BuildStep(1)

Spec == Init /\ [][Next]_vars

\* Whether build b is between two stages of build(), or outside it.
BetweenStages(b) == pc[b] \in {"ready", "join", "sub", "done", "failed"}

\* Control passes from one build to another only between two stages, and the
\* second build is started when the first has placed its blocks.
MayRun(b) ==
    /\ \A c \in Builds \ {b} : BetweenStages(c)
    /\ (b = 2 /\ pc[2] = "ready") => pc[1] = "join"

\* Two builds on the same sites, each running build() once.
NextShared ==
    \E b \in Builds :
        \/ MayRun(b) /\ PlaceMolsBegin(b)
        \/ MayRun(b) /\ PlaceA(b)
        \/ MayRun(b) /\ PlaceB(b)
        \/ MayRun(b) /\ JoinDistances(b)
        \/ MayRun(b) /\ JoinBond(b)
        \/ MayRun(b) /\ FinalSub(b)

SpecShared == InitShared /\ [][NextShared]_vars

\* One macromolecule whose first building block has four reactive groups,
\* built on a vertex that has three connected sites.
InitWide ==
    InitWith("monomer", [b \in Builds |-> <<"core4", "linker2">>])

SpecWide == InitWide /\ [][Next]_vars

\* One macromolecule whose building blocks are supplied linker first.
InitSwapped ==
    \E layout \in {"dimer", "monomer"} :
        InitWith(layout, [b \in Builds |-> <<"linker2", "core3">>])

SpecSwapped == InitSwapped /\ [][Next]_vars

(***************************************************************************)
(* join_mols and final_sub on the tetrahedron: four vertices with three    *)
(* edges each, every edge between two vertices.  The build starts where    *)
(* place_mols has returned; the four core blocks sit on their vertices in  *)
(* the same way, so what holds of one holds of all.                        *)
(***************************************************************************)
TetraBlocks == <<"core3", "linker2">>

\* macro_mol.heavy_mol when n_A blocks bb and n_B blocks lk have been merged.
RECURSIVE Composite(_, _, _)
Composite(roles, n_A, n_B) ==
    IF n_B > 0 THEN Composite(roles, n_A, n_B - 1) \o BlockAtoms(roles.lk)
    ELSE IF n_A > 0 THEN Composite(roles, n_A - 1, 0) \o BlockAtoms(roles.bb)
         ELSE <<>>

\* position.heavy_ids of every site when place_mols has returned.
PlacedHeavyIds(roles, pos_A, pos_B) ==
    [s \in Sites |->
        IF \E i \in DOMAIN pos_A : pos_A[i] = s
        THEN LET i == CHOOSE i \in DOMAIN pos_A : pos_A[i] = s
             IN  SortedIds(NewestHeavyIds(Composite(roles, i, 0), roles.n_bb))
        ELSE IF \E j \in DOMAIN pos_B : pos_B[j] = s
             THEN LET j == CHOOSE j \in DOMAIN pos_B : pos_B[j] = s
                  IN  NewestHeavyIds(Composite(roles, Len(pos_A), j), roles.n_lk)
             ELSE <<>>]

\* The results pair_heavy_ids_with_connected can leave on a vertex with as
\* many heavy ids as connections: each heavy id with one connection and
\* each connection with one heavy id, in any order of acceptance.  Entry k
\* is <<index in heavy_ids, index in connected>> of the k-th pair.
PairPatterns(n) ==
    { pattern \in [1..n -> (1..n) \X (1..n)] :
        \A i, j \in 1..n :
            i # j => (pattern[i][1] # pattern[j][1] /\ pattern[i][2] # pattern[j][2]) }

PatternPairs(pattern, hids, conn) ==
    [k \in DOMAIN pattern |-> <<hids[pattern[k][1]], conn[pattern[k][2]]>>]

\* The state in which place_mols has returned on the tetrahedron.
InitTetra ==
    LET roles == AssignRoles(TetraBlocks[1], TetraBlocks[2])
        pos_A == LayoutPositionsA("tetra")
        pos_B == LayoutPositionsB("tetra")
        hids == PlacedHeavyIds(roles, pos_A, pos_B)
    IN  /\ coord = LayoutCoord
        /\ connected = LayoutConnected("tetra")
        /\ heavy_ids = hids
        /\ \E pattern \in PairPatterns(roles.n_bb) :
              atom_position_pairs =
                 [s \in Sites |->
                    IF s \in Range(pos_A)
                    THEN PatternPairs(pattern, hids[s], LayoutConnected("tetra")[s])
                    ELSE <<>>]
        /\ distances = NoSites
        /\ positions_A = pos_A
        /\ positions_B = pos_B
        /\ pc = [b \in Builds |-> IF b = 1 THEN StageAfterPlaceMols ELSE "ready"]
        /\ idx = [b \in Builds |-> IF b = 1 THEN 1 ELSE 0]
        /\ err = [b \in Builds |-> "none"]
        /\ building_blocks = [b \in Builds |-> TetraBlocks]
        /\ role = [b \in Builds |-> IF b = 1 THEN roles
                                    ELSE [bb |-> "", lk |-> "", n_bb |-> 0, n_lk |-> 0]]
        /\ heavy_mol = [b \in Builds |->
                          IF b = 1 THEN Composite(roles, Len(pos_A), Len(pos_B)) ELSE <<>>]
        /\ heavy_bonds = [b \in Builds |-> <<>>]
        /\ editable_mol = [b \in Builds |-> <<>>]
        /\ paired = [b \in Builds |-> {}]
        /\ prist_mol = [b \in Builds |-> <<>>]
        /\ bonds_made = [b \in Builds |-> InitialBondsMade]
        /\ bb_counter = [b \in Builds |-> [n \in BlockNames |->
                           IF b = 1 /\ n = roles.bb THEN Len(pos_A)
                           ELSE IF b = 1 /\ n = roles.lk THEN Len(pos_B) ELSE 0]]
        /\ bb_centroid = [b \in Builds |-> [n \in BlockNames |->
                           IF b = 1 /\ n = roles.bb THEN pos_A[Len(pos_A)]
                           ELSE IF b = 1 /\ n = roles.lk THEN pos_B[Len(pos_B)]
                                ELSE "initial"]]
        /\ flip = [b \in Builds |-> [s \in Sites |->
                           IF b = 1 /\ s \in Range(pos_B) THEN 1 ELSE 0]]
        /\ stages = [b \in Builds |-> IF b = 1 THEN <<"place_mols">> ELSE <<>>]
        /\ accepted = [b \in Builds |-> <<>>]
        /\ writer = [s \in Sites |->
                       [heavy_ids |-> 1,
                        atom_position_pairs |-> IF s \in Range(pos_A) THEN 1 ELSE 0,
                        distances |-> {}]]
        /\ foreign_read = [b \in Builds |-> FALSE]
        /\ call = NoCall

\* The place of an atom among the heavy ids of the site that holds it.
RankOnSite(a) ==
    LET s == CHOOSE s \in Sites : a \in Range(heavy_ids[s])
    IN  CHOOSE i \in DOMAIN heavy_ids[s] : heavy_ids[s][i] = a

\* What atom_distance returns when every block of a kind lies on its site in
\* the same way: the distance of two atoms is given by their places in
\* their blocks, and is any value for each two places.
CongruentDistances ==
    LET ranks == { <<RankOnSite(c[1]), RankOnSite(c[2])>> : c \in JoinCandidatePairs }
    IN  { [c \in JoinCandidatePairs |-> f[<<RankOnSite(c[1]), RankOnSite(c[2])>>]] :
            f \in [ranks -> 1..MaxDist] }

NextTetra ==
    \/ JoinDistancesOver(1, CongruentDistances)
    \/ JoinBond(1)
    \/ FinalSub(1)

SpecTetra == InitTetra /\ [][NextTetra]_vars

(***************************************************************************)
(* The two matching loops, each called on its own on any list of           *)
(* candidates, and called again on what it accepted.                       *)
(***************************************************************************)
\* The heavy ids and positions the candidates of a lone call are made of.
MatchIds == {0, 1, 2}

MatchPositions == {"E", "e1"}

\* The atoms of the molecule of a lone call of the bonding loop: two of one
\* placeholder element on the site, two of the other on its neighbour.
MatchMol == <<45, 45, 39, 39>>

SeqsUpTo(S, n) == UNION { [1..k -> S] : k \in 0..n }

\* (distance, heavy_id, position) lists for pair_heavy_ids_with_connected.
PositionCandidateLists ==
    SeqsUpTo((1..MaxDist) \X MatchIds \X MatchPositions, MaxCandidates)

\* (distance, atom_id, atom2_id) lists for the second loop of join_mols.
AtomCandidateLists ==
    SeqsUpTo((1..MaxDist) \X {0, 1} \X {2, 3}, MaxCandidates)

\* The candidates a run accepted, each with the distance it was accepted at:
\* the smallest distance the pair has in the list.
AcceptedCandidates(cands, pairs) ==
    [k \in DOMAIN pairs |->
        LET ds == { cands[i][1] : i \in { j \in DOMAIN cands :
                                            /\ cands[j][2] = pairs[k][1]
                                            /\ cands[j][3] = pairs[k][2] } }
        IN  <<CHOOSE d \in ds : \A e \in ds : d <= e, pairs[k][1], pairs[k][2]>>]

\* The second loop of join_mols on one site with a fresh paired set.
BondSiteAlone(cands) ==
    LET st == BondSite(MatchMol, "V1", cands,
                       [bonds |-> <<>>, paired |-> {}, made |-> 0, err |-> "none",
                        log |-> <<>>])
    IN  [err |-> st.err,
         pairs |-> [k \in DOMAIN st.bonds |-> <<st.bonds[k][1], st.bonds[k][2]>>]]

\* A call not yet made: runs counts the calls made, res is the result of the
\* last one and first the pairs the first call accepted.
Pending(fn, cands) ==
    [fn |-> fn, arg |-> cands, runs |-> 0,
     res |-> [err |-> "none", pairs |-> <<>>], first |-> <<>>]

InitMatch ==
    /\ InitBuilds("isolated", [b \in Builds |-> <<"core3", "linker2">>])
    /\ \/ \E cands \in PositionCandidateLists : call = Pending("match", cands)
       \/ \E cands \in AtomCandidateLists : call = Pending("bond", cands)

\* pair_heavy_ids_with_connected from distances.sort() on.
MatchCall ==
    /\ call.fn = "match"
    /\ call.runs = 0
    /\ call' = [call EXCEPT !.runs = 1, !.res = SortAndMatch(call.arg)]
    /\ UNCHANGED buildVars

\* The same on the candidates the first call accepted.
RematchCall ==
    /\ call.fn = "match"
    /\ call.runs = 1
    /\ call.res.err = "none"
    /\ LET again == AcceptedCandidates(call.arg, call.res.pairs)
       IN  call' = [fn |-> "match", arg |-> again, runs |-> 2,
                    res |-> SortAndMatch(again), first |-> call.res.pairs]
    /\ UNCHANGED buildVars

\* The second loop of join_mols for one site.
BondSiteCall ==
    /\ call.fn = "bond"
    /\ call.runs = 0
    /\ call' = [call EXCEPT !.runs = 1, !.res = BondSiteAlone(call.arg)]
    /\ UNCHANGED buildVars

\* The same on the candidates the first call accepted.
RebondSiteCall ==
    /\ call.fn = "bond"
    /\ call.runs = 1
    /\ call.res.err = "none"
    /\ LET again == AcceptedCandidates(call.arg, call.res.pairs)
       IN  call' = [fn |-> "bond", arg |-> again, runs |-> 2,
                    res |-> BondSiteAlone(again), first |-> call.res.pairs]
    /\ UNCHANGED buildVars

NextMatch ==
    \/ MatchCall
    \/ RematchCall
    \/ BondSiteCall
    \/ RebondSiteCall

SpecMatch == InitMatch /\ [][NextMatch]_vars

(***************************************************************************)
(* final_sub called on its own, on any molecule and any registry.          *)
(***************************************************************************)
\* Atomic numbers a registry may name as placeholder and as target.
PlaceholderElements == {39, 45}

TargetElements == {6, 7, 39}

\* Registries of one or two functional groups.
Registries ==
    { r \in SeqsUpTo([heavy_atomic_num : PlaceholderElements,
                      target_atomic_num : TargetElements], 2) : r # <<>> }

\* Heavy-atom molecules: their atoms by atomic number.
Molecules == SeqsUpTo({6, 39, 45}, MaxAtoms)

InitSub ==
    /\ InitBuilds("isolated", [b \in Builds |-> <<"core3", "linker2">>])
    /\ \E registry \in Registries, mol \in Molecules :
          call = [fn |-> "final_sub", registry |-> registry, arg |-> mol,
                  runs |-> 0, res |-> <<>>]

\* final_sub: prist_mol from heavy_mol.
FinalSubCall ==
    /\ call.fn = "final_sub"
    /\ call.runs = 0
    /\ call' = [call EXCEPT !.runs = 1, !.res = SubstitutedWith(call.registry, call.arg)]
    /\ UNCHANGED buildVars

NextSub == FinalSubCall

SpecSub == InitSub /\ [][NextSub]_vars

(***************************************************************************)
(* determine_bond_type called on its own, for any two atoms of any         *)
(* molecule and any list of double-bond combinations, in both orders.      *)
(***************************************************************************)
\* The symbols of the registered placeholder elements.
HeavySymbols ==
    { functional_group_list[i].heavy_symbol : i \in DOMAIN functional_group_list }

\* The values FGInfo.double_bond_combs may have.
DoubleBondCombLists == SUBSET (HeavySymbols \X HeavySymbols)

InitBondType ==
    /\ InitBuilds("isolated", [b \in Builds |-> <<"core3", "linker2">>])
    /\ \E combs \in DoubleBondCombLists, mol \in Molecules :
          \E atom1_id, atom2_id \in { i - 1 : i \in DOMAIN mol } :
              call = [fn |-> "determine_bond_type", combs |-> combs, mol |-> mol,
                      atom1_id |-> atom1_id, atom2_id |-> atom2_id,
                      runs |-> 0, res |-> "none", swapped |-> "none"]

\* determine_bond_type(atom1_id, atom2_id)
BondTypeCall ==
    /\ call.fn = "determine_bond_type"
    /\ call.runs = 0
    /\ call' = [call EXCEPT !.runs = 1,
                  !.res = DetermineBondTypeWith(call.combs, call.mol,
                                                call.atom1_id, call.atom2_id)]
    /\ UNCHANGED buildVars

\* determine_bond_type(atom2_id, atom1_id)
BondTypeSwappedCall ==
    /\ call.fn = "determine_bond_type"
    /\ call.runs = 1
    /\ call' = [call EXCEPT !.runs = 2,
                  !.swapped = DetermineBondTypeWith(call.combs, call.mol,
                                                    call.atom2_id, call.atom1_id)]
    /\ UNCHANGED buildVars

NextBondType ==
    \/ BondTypeCall
    \/ BondTypeSwappedCall

SpecBondType == InitBondType /\ [][NextBondType]_vars

\* ---------------------------------------------------------------------------
\* Vertex.edge_plane_normal on its own: three connected edges at integer
\* coordinates of a small cube around the origin.
\* ---------------------------------------------------------------------------
MaxCoord == 1

Coords3 == (-MaxCoord..MaxCoord) \X (-MaxCoord..MaxCoord) \X (-MaxCoord..MaxCoord)

VecSub(v, w) == <<v[1] - w[1], v[2] - w[2], v[3] - w[3]>>

Dot(v, w) == v[1] * w[1] + v[2] * w[2] + v[3] * w[3]

\* np.cross(v1, v2)
Cross(v, w) == <<v[2] * w[3] - v[3] * w[2],
                 v[3] * w[1] - v[1] * w[3],
                 v[1] * w[2] - v[2] * w[1]>>

\* np.multiply(normal, -1)
Negated(v) == <<0 - v[1], 0 - v[2], 0 - v[3]>>

ZeroVec == <<0, 0, 0>>

\* edge_direction_vectors(): one vector edge1.coord - edge2.coord per
\* 2-combination of the connected edges, in itertools.combinations order.
\* Normalisation scales a vector by a positive factor, so a vector stands for
\* its direction here.
EdgeDirectionVectors(coords) ==
    LET Combs == { c \in (DOMAIN coords) \X (DOMAIN coords) : c[1] < c[2] }
        Rank(c) == 1 + Cardinality({ d \in Combs :
                                       \/ d[1] < c[1]
                                       \/ d[1] = c[1] /\ d[2] < c[2] })
    IN  [k \in 1..Cardinality(Combs) |->
            LET c == CHOOSE d \in Combs : Rank(d) = k
            IN  VecSub(coords[c[1]], coords[c[2]])]

\* theta > np.pi/2 for theta = vector_theta(normal, coord): the angle between
\* two vectors exceeds a right angle when their dot product is negative.
ThetaExceedsRightAngle(normal, position) == Dot(normal, position) < 0

\* The normal before its sign is settled (lines 177-180).
RawNormal(coords) ==
    LET v1 == EdgeDirectionVectors(coords)[1]
        v2 == EdgeDirectionVectors(coords)[2]
    IN  Cross(v1, v2)

\* As edge_plane_normal but the sign of the normal is never changed.
EdgePlaneNormalUnsigned(coords) ==
    LET normal == RawNormal(coords)
    IN  [defined |-> normal # ZeroVec, normal |-> normal]

\* edge_plane_normal(): normalize_vector of a zero cross product divides by a
\* zero length, the result is not a direction.
EdgePlaneNormal(coords) ==
    LET normal == RawNormal(coords)
    IN  [defined |-> normal # ZeroVec,
         normal  |-> IF ThetaExceedsRightAngle(normal, coords[1])
                        THEN Negated(normal)
                        ELSE normal]

InitNormal ==
    /\ InitBuilds("isolated", [b \in Builds |-> <<"core3", "linker2">>])
    /\ \E c1, c2, c3 \in Coords3 :
          call = [fn |-> "edge_plane_normal", connected |-> <<c1, c2, c3>>,
                  runs |-> 0, res |-> [defined |-> FALSE, normal |-> ZeroVec]]

\* edge_plane_normal()
EdgePlaneNormalCall ==
    /\ call.fn = "edge_plane_normal"
    /\ call.runs = 0
    /\ ~EdgePlaneNormalRaises(call.connected)
    /\ call' = [call EXCEPT !.runs = 1, !.res = EdgePlaneNormal(call.connected)]
    /\ UNCHANGED buildVars

NextNormal == EdgePlaneNormalCall

SpecNormal == InitNormal /\ [][NextNormal]_vars

\* A Vertex object as __init__ leaves it, with the coordinates of the sites
\* later appended to its connected list: its instance attributes by name.
VertexObject(position, coords) ==
    [coord |-> position, connected |-> coords, heavy_ids |-> <<>>,
     atom_position_pairs |-> <<>>, distances |-> <<>>]

\* self.<name>: the attribute, or AttributeError when the object has none of
\* that name (the class defines methods only, and none called edges).
GetAttr(obj, name) ==
    IF name \in DOMAIN obj
    THEN [err |-> "none", value |-> obj[name]]
    ELSE [err |-> "AttributeError", value |-> <<>>]

\* edge_plane(): heavy_coord = self.edges[0].coord, then the normal with
\* d = -(normal . heavy_coord) appended.
EdgePlane(obj) ==
    LET edges == GetAttr(obj, "edges")
    IN  IF edges.err # "none"
        THEN [err |-> edges.err, value |-> <<>>]
        ELSE LET heavy_coord == edges.value[1]
                 normal == EdgePlaneNormal(obj.connected).normal
             IN  [err |-> "none",
                  value |-> normal \o <<0 - Dot(normal, heavy_coord)>>]

InitPlane ==
    /\ InitBuilds("isolated", [b \in Builds |-> <<"core3", "linker2">>])
    /\ \E c1, c2, c3 \in Coords3 :
          call = [fn |-> "edge_plane", connected |-> <<c1, c2, c3>>,
                  runs |-> 0, res |-> [err |-> "none", value |-> <<>>]]

\* edge_plane() on a vertex at the origin with three connected sites
EdgePlaneCall ==
    /\ call.fn = "edge_plane"
    /\ call.runs = 0
    /\ call' = [call EXCEPT !.runs = 1,
                            !.res = EdgePlane(VertexObject(ZeroVec, call.connected))]
    /\ UNCHANGED buildVars

NextPlane == EdgePlaneCall

SpecPlane == InitPlane /\ [][NextPlane]_vars

\* ---------------------------------------------------------------------------
\* Population (stk/populations.py): a container of molecules and of nested
\* populations.  A population is a record of its two attributes; molecules are
\* told apart by identity.
\* ---------------------------------------------------------------------------
MaxMembers == 1
MaxSubpops == 2

PopMols == {"m1", "m2"}

\* Population(*args) with molecule arguments only, with flat populations
\* among the arguments, and with nested populations among them.
EmptyPopulation == [direct_members |-> <<>>, subpopulations |-> <<>>]

FlatPopulations ==
    { [direct_members |-> ms, subpopulations |-> <<>>] :
        ms \in SeqsUpTo(PopMols, MaxMembers) }

NestedPopulations ==
    { [direct_members |-> ms, subpopulations |-> sps] :
        ms \in SeqsUpTo(PopMols, MaxMembers),
        sps \in SeqsUpTo(FlatPopulations, MaxSubpops) }

DeepPopulations ==
    { [direct_members |-> ms, subpopulations |-> sps] :
        ms \in SeqsUpTo(PopMols, MaxMembers),
        sps \in SeqsUpTo(NestedPopulations, MaxSubpops) }

\* The methods the class body defines.
PopulationMethods ==
    { "__init__", "init_all", "init_copy", "init_diverse", "init_from_files",
      "init_random", "init_from_list", "add_members", "add_subpopulation",
      "_get_all_members", "assign_names_from", "dump", "has_structure",
      "load", "get_max", "get_mean", "get_min", "_optimize_parallel",
      "_optimize_serial", "optimize", "remove_duplicates", "remove_members",
      "to_list", "write", "__iter__", "__getitem__", "__len__", "__sub__",
      "__add__", "__contains__", "__str__", "__repr__" }

RECURSIVE GetAllMembers(_)
RECURSIVE CallGenerator(_, _)
RECURSIVE YieldFromSubpopulations(_, _)

\* for pop in self.subpopulations: yield from pop._all_members()
\* from the k-th subpopulation on.  An exception ends the generator; what
\* was yielded before it stays yielded.
YieldFromSubpopulations(subpops, k) ==
    IF k > Len(subpops)
    THEN [yielded |-> <<>>, err |-> "none"]
    ELSE LET r == CallGenerator("_all_members", subpops[k])
         IN  IF r.err # "none"
             THEN r
             ELSE LET rest == YieldFromSubpopulations(subpops, k + 1)
                  IN  [yielded |-> r.yielded \o rest.yielded, err |-> rest.err]

\* pop.<name>(): the attribute lookup raises AttributeError for a name the
\* class does not define; _get_all_members is the generator method.
CallGenerator(name, pop) ==
    IF name \in PopulationMethods /\ name = "_get_all_members"
    THEN GetAllMembers(pop)
    ELSE [yielded |-> <<>>, err |-> "AttributeError"]

\* _get_all_members(): the direct members, then the subpopulations.
GetAllMembers(pop) ==
    LET rest == YieldFromSubpopulations(pop.subpopulations, 1)
    IN  [yielded |-> pop.direct_members \o rest.yielded, err |-> rest.err]

\* __iter__(): yield from self._get_all_members()
PopulationIter(pop) == GetAllMembers(pop)

RECURSIVE LenLoop(_, _)
\* The while loop of __len__: pop the last population of the stack, push
\* its subpopulations, add its direct members to size.
LenLoop(stack, size) ==
    IF stack = <<>>
    THEN size
    ELSE LET subpop == stack[Len(stack)]
         IN  LenLoop(SubSeq(stack, 1, Len(stack) - 1) \o subpop.subpopulations,
                     size + Len(subpop.direct_members))

\* __len__()
PopulationLen(pop) == LenLoop(pop.subpopulations, Len(pop.direct_members))

\* __contains__(item): any(item is mol for mol in self) stops at the first
\* hit, so an exception of the iteration is met only when there was no hit
\* before it.
PopulationContains(pop, item) ==
    LET it == PopulationIter(pop)
    IN  IF \E i \in DOMAIN it.yielded : it.yielded[i] = item
        THEN [value |-> TRUE, err |-> "none"]
        ELSE [value |-> FALSE, err |-> it.err]

RECURSIVE ExtendNotHeld(_, _, _)
\* self.direct_members.extend(mol for mol in members if mol not in self)
ExtendNotHeld(pop, members, k) ==
    IF k > Len(members)
    THEN [pop |-> pop, err |-> "none"]
    ELSE LET held == PopulationContains(pop, members[k])
         IN  IF held.err # "none"
             THEN [pop |-> pop, err |-> held.err]
             ELSE ExtendNotHeld(
                      IF held.value
                      THEN pop
                      ELSE [pop EXCEPT !.direct_members = Append(@, members[k])],
                      members, k + 1)

\* add_members(*members, duplicates): members is the tuple of the positional
\* arguments.
AddMembers(pop, members, duplicates) ==
    IF duplicates
    THEN [pop |-> [pop EXCEPT !.direct_members = @ \o members], err |-> "none"]
    ELSE ExtendNotHeld(pop, members, 1)

\* The generator expression (mol for mol in self if mol not in other): an
\* object of its own, which runs only when something iterates it.
GeneratorObject == "generator"

\* __sub__(other): the generator expression is the one positional argument
\* of add_members.
PopulationSub(self, other) ==
    AddMembers(EmptyPopulation, <<GeneratorObject>>, TRUE).pop

\* m.to_json(...) and member_init: a molecule and its JSON dictionary.
ToJson(m) == <<"dict", m>>

MemberInit(item) == item[2]

\* isinstance(item, list)
IsList(item) == item[1] = "list"

IsDict(item) == ~IsList(item)

RECURSIVE ToList(_)
\* to_list(): the JSON dictionaries of the direct members, then one sublist
\* for each subpopulation.
ToList(pop) ==
    [i \in DOMAIN pop.direct_members |-> ToJson(pop.direct_members[i])]
    \o [i \in DOMAIN pop.subpopulations |->
           <<"list", ToList(pop.subpopulations[i])>>]

RECURSIVE InitFromList(_)
\* init_from_list(pop_list, member_init)
InitFromList(pop_list) ==
    LET dicts == SelectSeq(pop_list, IsDict)
        lists == SelectSeq(pop_list, IsList)
    IN  [direct_members |-> [i \in DOMAIN dicts |-> MemberInit(dicts[i])],
         subpopulations |-> [i \in DOMAIN lists |-> InitFromList(lists[i][2])]]

NoFile == [exists |-> FALSE, content |-> <<>>]

\* dump(path): json.dump(self.to_list(include_attrs), f)
Dump(pop) == [exists |-> TRUE, content |-> ToList(pop)]

\* cls.<name>(pop_list, member_init): init_from_list is the class method
\* that reads a list representation; a name the class does not define
\* raises AttributeError.
CallClassMethod(name, pop_list) ==
    IF name \in PopulationMethods /\ name = "init_from_list"
    THEN [pop |-> InitFromList(pop_list), err |-> "none"]
    ELSE [pop |-> EmptyPopulation, err |-> "AttributeError"]

\* load(path, member_init): pop_list = json.load(f), then
\* return cls.from_list(pop_list, member_init)
Load(file) ==
    IF ~file.exists
    THEN [pop |-> EmptyPopulation, err |-> "FileNotFoundError"]
    ELSE CallClassMethod("from_list", file.content)

InitPop ==
    /\ InitBuilds("isolated", [b \in Builds |-> <<"core3", "linker2">>])
    /\ \/ \E pop \in DeepPopulations :
             call = [fn |-> "iter", pop |-> pop, runs |-> 0,
                     yielded |-> <<>>, err |-> "none", size |-> 0,
                     item |-> "m1", contained |-> FALSE,
                     contains_err |-> "none"]
       \/ \E pop1, pop2 \in NestedPopulations :
             call = [fn |-> "sub", pop1 |-> pop1, pop2 |-> pop2, runs |-> 0,
                     res |-> EmptyPopulation]
       \/ \E pop \in DeepPopulations :
             call = [fn |-> "dump", pop |-> pop, runs |-> 0, file |-> NoFile,
                     res |-> [pop |-> EmptyPopulation, err |-> "none"]]

\* list(pop)
IterCall ==
    /\ call.fn = "iter"
    /\ call.runs = 0
    /\ LET it == PopulationIter(call.pop)
       IN  call' = [call EXCEPT !.runs = 1, !.yielded = it.yielded,
                                !.err = it.err]
    /\ UNCHANGED buildVars

\* len(pop)
LenCall ==
    /\ call.fn = "iter"
    /\ call.runs = 1
    /\ call' = [call EXCEPT !.runs = 2, !.size = PopulationLen(call.pop)]
    /\ UNCHANGED buildVars

\* item in pop
ContainsCall ==
    /\ call.fn = "iter"
    /\ call.runs = 2
    /\ \E item \in PopMols :
          LET held == PopulationContains(call.pop, item)
          IN  call' = [call EXCEPT !.runs = 3, !.item = item,
                                   !.contained = held.value,
                                   !.contains_err = held.err]
    /\ UNCHANGED buildVars

\* pop1 - pop2
SubCall ==
    /\ call.fn = "sub"
    /\ call.runs = 0
    /\ call' = [call EXCEPT !.runs = 1,
                            !.res = PopulationSub(call.pop1, call.pop2)]
    /\ UNCHANGED buildVars

\* pop.dump(path)
DumpCall ==
    /\ call.fn = "dump"
    /\ call.runs = 0
    /\ call' = [call EXCEPT !.runs = 1, !.file = Dump(call.pop)]
    /\ UNCHANGED buildVars

\* Population.load(path, member_init)
LoadCall ==
    /\ call.fn = "dump"
    /\ call.runs = 1
    /\ call' = [call EXCEPT !.runs = 2, !.res = Load(call.file)]
    /\ UNCHANGED buildVars

NextPop ==
    \/ IterCall
    \/ LenCall
    \/ ContainsCall
    \/ SubCall
    \/ DumpCall
    \/ LoadCall

SpecPop == InitPop /\ [][NextPop]_vars

(***************************************************************************)
(* Two builds of one topology class, one after the other on the same       *)
(* sites, in a geometry that is the same for both: call holds where the    *)
(* atoms of a block lie on a vertex and how far they are from the two ends *)
(* of a linker, and, once the first build has ended, what it left on the   *)
(* sites.                                                                  *)
(***************************************************************************)
\* Where the placeholder atom in a given place of its block may lie, seen
\* from the vertex the block is put on.
CornerOffsets ==
    { <<0 - MaxOffset, MaxOffset>>, <<MaxOffset, 0 - MaxOffset>> }

\* The building blocks of the first build; the second uses core3 and linker2.
SeqBlocks == { <<"core3", "linker2">>, <<"core3b", "linker2">> }

InitSeq ==
    /\ \E first \in SeqBlocks :
          InitBuilds("fan", [b \in Builds |-> IF b = 1 THEN first
                                             ELSE <<"core3", "linker2">>])
    /\ \E offset \in [1..3 -> CornerOffsets], dist \in [1..3 -> 1..MaxDist] :
          call = [fn |-> "geometry", offset |-> offset, dist |-> dist,
                  observed |-> [heavy_ids |-> NoSites, atom_position_pairs |-> NoSites,
                                distances |-> NoSites]]

\* macro_mol.atom_coords('heavy', heavy_id) for the atoms of the block just
\* placed: the atom in place k of the block lies at call.offset[k] from the
\* vertex.
GeomAtomCoords(b) ==
    LET position == positions_A[idx[b]]
        ids == NextHeavyIdsA(b)
    IN  [h \in Range(ids) |->
            LET k == CHOOSE k \in DOMAIN ids : ids[k] = h
            IN  << coord[position][1] + call.offset[k][1],
                   coord[position][2] + call.offset[k][2] >>]

\* macro_mol.atom_distance('heavy', atom_id, atom2_id): the atom in place k
\* of the vertex block is call.dist[k] from the end of the linker that points
\* along the edge direction, and as much nearer the other end as it is
\* farther from this one; the sign drawn for the edge says which of the two
\* atoms of the linker is at that end.
GeomDistances(b) ==
    [c \in JoinCandidatePairs |->
        LET v == CHOOSE s \in Sites : c[2] \in Range(heavy_ids[s])
            leading == IF flip[b][v] = 1 THEN 1 ELSE Len(heavy_ids[v])
            d == call.dist[RankOnSite(c[1])]
        IN  IF RankOnSite(c[2]) = leading THEN d ELSE MaxDist + 1 - d]

\* A step of build b in the geometry of call.
SeqStep(b) ==
    \/ PlaceMolsBegin(b)
    \/ PlaceAOver(b, {GeomAtomCoords(b)})
    \/ PlaceB(b)
    \/ JoinDistancesOver(b, {GeomDistances(b)})
    \/ JoinBond(b)
    \/ FinalSub(b)

\* The caller reads the sites when the first build has returned or raised.
Observe ==
    /\ call.fn = "geometry"
    /\ pc[1] \in {"done", "failed"}
    /\ call' = [call EXCEPT !.fn = "observed",
                            !.observed = [heavy_ids |-> heavy_ids,
                                          atom_position_pairs |-> atom_position_pairs,
                                          distances |-> distances]]
    /\ UNCHANGED buildVars

NextSeq ==
    \/ SeqStep(1)
    \/ Observe
    \/ call.fn = "observed" /\ SeqStep(2)

SpecSeq == InitSeq /\ [][NextSeq]_vars

(***************************************************************************)
(* place_mol called on its own, on a site of a topology class whose build  *)
(* has returned or raised, with a building block of that build.            *)
(***************************************************************************)
InitPlace ==
    \E layout \in {"dimer", "monomer"} :
        InitWith(layout, [b \in Builds |-> <<"core3", "linker2">>])

\* site.place_mol(block), the block being one of macro_mol.building_blocks
\* of build 1: the site's list is flushed, the block is moved, and the
\* call returns the block's heavy_mol or raises.
PlaceMolCall ==
    /\ pc[1] \in {"done", "failed"}
    /\ call = NoCall
    /\ \E site \in Sites, k \in DOMAIN building_blocks[1], sign \in {1, -1, 0} :
          LET block == building_blocks[1][k]
              placed == PlaceMol(site, block, connected[site], bb_centroid[1][block])
          IN  /\ sign \in FlipChoices(site)
              /\ distances' = Flushed(site)
              /\ bb_centroid' = [bb_centroid EXCEPT ![1][block] = placed.centroid]
              /\ flip' = [flip EXCEPT ![1][site] = sign]
              /\ call' = [fn |-> "place_mol", site |-> site, block |-> block,
                          err |-> placed.err]
    /\ UNCHANGED <<coord, connected, heavy_ids, atom_position_pairs, topoVars, pc, idx,
                   err, building_blocks, role, molVars, bonds_made, bb_counter,
                   histVars>>

NextPlace ==
    \/ BuildStep(1)
    \/ PlaceMolCall

SpecPlace == InitPlace /\ [][NextPlace]_vars

(***************************************************************************)
(* The class body of a topology: Vertex(x, y, z), Edge(v1, v2) and         *)
(* Vertex.vertex_init(vertices), called in any order on the sites made so  *)
(* far.  call.created lists the calls made: the site each returned, the    *)
(* constructor and its arguments.                                          *)
(***************************************************************************)
MaxCreated == 4

MaxVertices == 2

\* The coordinates a Vertex is created with.
VertexCoords == { <<0, 0>>, <<1296, 0>> }

VertexNames == <<"V1", "V2", "V3", "V4">>

EdgeNames == <<"E", "e1", "e2", "e3", "e4", "e5">>

\* The next object of a class: the first name no site made so far has.
Unused(names, created) ==
    { i \in DOMAIN names : \A k \in DOMAIN created : created[k].site # names[i] }

NewSite(names, created) ==
    names[CHOOSE i \in Unused(names, created) : \A j \in Unused(names, created) : i <= j]

RECURSIVE SumOf(_, _)
SumOf(coords, axis) ==
    IF coords = <<>> THEN 0
    ELSE coords[1][axis] + SumOf(Tail(coords), axis)

\* centroid of the coordinates given: their mean.
Centroid(coords) ==
    << SumOf(coords, 1) \div Len(coords), SumOf(coords, 2) \div Len(coords) >>

\* A variant that appends obj once to every distinct site it was built from;
\* C28 does not hold of it.
ConnectBackOnce(conn, obj, vertices) ==
    [s \in Sites |-> IF s \in Range(vertices) THEN Append(conn[s], obj) ELSE conn[s]]

\* for v in vertices: v.connected.append(obj)
RECURSIVE ConnectBack(_, _, _)
ConnectBack(conn, obj, vertices) ==
    IF vertices = <<>> THEN conn
    ELSE ConnectBack([conn EXCEPT ![vertices[1]] = Append(@, obj)], obj, Tail(vertices))

\* Before the class body runs: no site exists.
InitGraph ==
    /\ coord = [s \in Sites |-> <<0, 0>>]
    /\ connected = NoSites
    /\ heavy_ids = NoSites
    /\ atom_position_pairs = NoSites
    /\ distances = NoSites
    /\ positions_A = <<>>
    /\ positions_B = <<>>
    /\ pc = [b \in Builds |-> "ready"]
    /\ idx = [b \in Builds |-> 0]
    /\ err = [b \in Builds |-> "none"]
    /\ building_blocks = [b \in Builds |-> <<>>]
    /\ role = [b \in Builds |-> [bb |-> "", lk |-> "", n_bb |-> 0, n_lk |-> 0]]
    /\ heavy_mol = [b \in Builds |-> <<>>]
    /\ heavy_bonds = [b \in Builds |-> <<>>]
    /\ editable_mol = [b \in Builds |-> <<>>]
    /\ paired = [b \in Builds |-> {}]
    /\ prist_mol = [b \in Builds |-> <<>>]
    /\ bonds_made = [b \in Builds |-> InitialBondsMade]
    /\ bb_counter = [b \in Builds |-> [n \in BlockNames |-> 0]]
    /\ bb_centroid = [b \in Builds |-> [n \in BlockNames |-> "initial"]]
    /\ flip = [b \in Builds |-> [s \in Sites |-> 0]]
    /\ stages = [b \in Builds |-> <<>>]
    /\ accepted = [b \in Builds |-> <<>>]
    /\ writer = [s \in Sites |-> [heavy_ids |-> 0, atom_position_pairs |-> 0, distances |-> {}]]
    /\ foreign_read = [b \in Builds |-> FALSE]
    /\ call = [fn |-> "class_body", created |-> <<>>]

\* The sites made so far.
Created == { call.created[k].site : k \in DOMAIN call.created }

\* What every constructor does through Vertex.__init__, and the record of
\* the call.
Construct(obj, fn, args, position, conn) ==
    /\ coord' = [coord EXCEPT ![obj] = position]
    /\ connected' = conn
    /\ heavy_ids' = [heavy_ids EXCEPT ![obj] = <<>>]
    /\ atom_position_pairs' = [atom_position_pairs EXCEPT ![obj] = <<>>]
    /\ distances' = [distances EXCEPT ![obj] = <<>>]
    /\ call' = [call EXCEPT !.created = Append(@, [site |-> obj, fn |-> fn, args |-> args])]
    /\ UNCHANGED <<topoVars, pc, idx, err, building_blocks, role, molVars, bonds_made,
                   bb_counter, bb_centroid, flip, histVars>>

\* Vertex(x, y, z)
NewVertex ==
    /\ call.fn = "class_body"
    /\ Len(call.created) < MaxCreated
    /\ Cardinality({ k \in DOMAIN call.created : call.created[k].fn = "Vertex" })
         < MaxVertices
    /\ Unused(VertexNames, call.created) # {}
    /\ \E position \in VertexCoords :
          LET obj == NewSite(VertexNames, call.created)
          IN  Construct(obj, "Vertex", <<>>, position, [connected EXCEPT ![obj] = <<>>])

\* Edge(v1, v2), v1 and v2 being any two sites, the same one twice included.
NewEdge ==
    /\ call.fn = "class_body"
    /\ Len(call.created) < MaxCreated
    /\ Unused(EdgeNames, call.created) # {}
    /\ \E v1 \in Created, v2 \in Created :
          LET obj == NewSite(EdgeNames, call.created)
          IN  Construct(obj, "Edge", <<v1, v2>>, Centroid(<<coord[v1], coord[v2]>>),
                        ConnectBack([connected EXCEPT ![obj] = <<v1, v2>>],
                                    obj, <<v1, v2>>))

\* Vertex.vertex_init called with one or two sites.
VertexInit ==
    /\ call.fn = "class_body"
    /\ Len(call.created) < MaxCreated
    /\ Unused(VertexNames, call.created) # {}
    /\ \E vertices \in SeqsUpTo(Created, 2) \ {<<>>} :
          LET obj == NewSite(VertexNames, call.created)
          IN  Construct(obj, "vertex_init", vertices,
                        Centroid([k \in DOMAIN vertices |-> coord[vertices[k]]]),
                        ConnectBack([connected EXCEPT ![obj] = vertices],
                                    obj, vertices))

NextGraph ==
    \/ NewVertex
    \/ NewEdge
    \/ VertexInit

SpecGraph == InitGraph /\ [][NextGraph]_vars

(***************************************************************************)
(* Properties.                                                             *)
(***************************************************************************)
\* How many bond ends of a bond list sit on atom a.
EndpointCount(bonds, a) ==
    Cardinality({ k \in DOMAIN bonds : bonds[k][1] = a })
      + Cardinality({ k \in DOMAIN bonds : bonds[k][2] = a })

AtomIds(b) == { i - 1 : i \in DOMAIN heavy_mol[b] }

\* The (atom, atom) pairs of a bond list.
BondPairs(bonds) == { <<bonds[k][1], bonds[k][2]>> : k \in DOMAIN bonds }

\* The candidate tuples of a site that did not become a bond of build b.
Rejected(b, p) ==
    { t \in Range(distances[p]) : <<t[2], t[3]>> \notin BondPairs(editable_mol[b]) }

IsDimer ==
    /\ positions_A = <<"V1", "V2">>
    /\ positions_B = <<"E">>
    /\ Len(connected["V1"]) = 3
    /\ Len(connected["V2"]) = 3

\* C1: no atom id is an endpoint of two bonds added by join_mols, whether it
\* was the first or the second member of a candidate and whichever site of
\* positions_A the candidate came from; this holds while join_mols runs and
\* for the bonds it leaves in the composite molecule.
C1_NoAtomBondedTwice ==
    \A b \in Builds : \A a \in AtomIds(b) :
        /\ EndpointCount(editable_mol[b], a) <= 1
        /\ EndpointCount(heavy_bonds[b], a) <= 1

\* A finished build in which a candidate of the second site was turned down
\* because the first site had already bonded one of its atoms.
C1_Witness ==
    /\ pc[1] = "done"
    /\ Len(heavy_bonds[1]) = 2
    /\ \E t \in Rejected(1, "V2") : \E k \in DOMAIN heavy_bonds[1] :
          heavy_bonds[1][k][2] = t[3] /\ heavy_bonds[1][k][1] # t[2]

\* C2: bonds_made is 0 at creation, never decreases, grows by exactly one
\* with each bond added, and equals the number of bonds of the composite
\* molecule when the build has succeeded.
C2_BondsMadeCountsBonds ==
    /\ \A b \in Builds : bonds_made[b] = 0
    /\ [][\A b \in Builds :
            /\ bonds_made'[b] >= bonds_made[b]
            /\ bonds_made'[b] - bonds_made[b]
                 = Len(editable_mol'[b]) - Len(editable_mol[b])]_vars
    /\ [](\A b \in Builds : pc[b] = "done" => bonds_made[b] = Len(heavy_bonds[b]))

\* A finished build whose counter has been incremented.
C2_Witness ==
    /\ pc[1] = "done"
    /\ bonds_made[1] > 0
    /\ bonds_made[1] = Len(heavy_bonds[1])

\* C3: on the dimer layout, a core block with 3 reactive groups and a linker
\* with 2 give exactly 2 bonds and bonds_made = 2 when build() has returned.
C3_DimerMakesTwoBonds ==
    (/\ IsDimer
     /\ pc[1] = "done"
     /\ role[1].n_bb = 3
     /\ role[1].n_lk = 2)
        => (Len(heavy_bonds[1]) = 2 /\ bonds_made[1] = 2)

\* The dimer built from the 3-group core and the 2-group linker.
C3_Witness ==
    /\ IsDimer
    /\ pc[1] = "done"
    /\ role[1] = [bb |-> "core3", lk |-> "linker2", n_bb |-> 3, n_lk |-> 2]
    /\ bb_counter[1]["core3"] = 2
    /\ bb_counter[1]["linker2"] = 1
    /\ bonds_made[1] = 2

\* The place of a site in positions_A.
SiteIndex(p) == CHOOSE i \in DOMAIN positions_A : positions_A[i] = p

\* The second loop of join_mols of build b has finished with site p.
Processed(b, p) ==
    \/ pc[b] \in {"sub", "done"}
    \/ pc[b] = "bond" /\ SiteIndex(p) < idx[b]

\* The accepted pairs of build b that hold an atom of candidate t.
Blockers(b, t) ==
    { k \in DOMAIN accepted[b] :
        {accepted[b][k].atom1, accepted[b][k].atom2} \cap {t[2], t[3]} # {} }

\* The distances of the first i sites of positions_A, one list.
RECURSIVE ConcatDistances(_)
ConcatDistances(i) ==
    IF i = 0 THEN <<>> ELSE ConcatDistances(i - 1) \o distances[positions_A[i]]

\* Greedy exclusive matching over one list: a pair is taken when neither of
\* its members has been claimed by a pair before it.
RECURSIVE GreedyExclusiveMatch(_, _, _, _)
GreedyExclusiveMatch(candidates, i, claimed, out) ==
    IF i > Len(candidates) THEN out
    ELSE LET a == candidates[i][2]
             c == candidates[i][3]
         IN  IF a \in claimed \/ c \in claimed
             THEN GreedyExclusiveMatch(candidates, i + 1, claimed, out)
             ELSE GreedyExclusiveMatch(candidates, i + 1, claimed \cup {a, c},
                                       out \cup {<<a, c>>})

\* C4 as stated: the triples of all positions_A sites are sorted together,
\* the bonds are the greedy exclusive matching over that one sorted list, and
\* a pair is never turned down because of a pair of strictly larger distance
\* of an earlier site.
C4_GloballySorted ==
    \A b \in Builds :
        pc[b] = "done" =>
            /\ BondPairs(heavy_bonds[b])
                 = GreedyExclusiveMatch(
                      SortBy("tuple", ConcatDistances(Len(positions_A))), 1, {}, {})
            /\ \A p \in Range(positions_A) : \A t \in Rejected(b, p) :
                  \E k \in Blockers(b, t) : accepted[b][k].distance <= t[1]

\* C4, amended: the triples are sorted site by site.  The sites are taken in
\* positions_A order and the pairs of one site by ascending distance, all
\* against one exclusivity set: every pair turned down shares an atom with a
\* pair accepted from an earlier site (of any distance) or with a pair of its
\* own site of no larger distance.
C4_SortedPerSite ==
    \A b \in Builds :
        /\ \A i, j \in DOMAIN accepted[b] :
              i < j =>
                \/ SiteIndex(accepted[b][i].site) < SiteIndex(accepted[b][j].site)
                \/ /\ accepted[b][i].site = accepted[b][j].site
                   /\ accepted[b][i].distance <= accepted[b][j].distance
        /\ BondPairs(editable_mol[b])
             = { <<accepted[b][k].atom1, accepted[b][k].atom2>> : k \in DOMAIN accepted[b] }
        /\ \A p \in Range(positions_A) :
              Processed(b, p) =>
                \A t \in Rejected(b, p) :
                    \E k \in Blockers(b, t) :
                        \/ SiteIndex(accepted[b][k].site) < SiteIndex(p)
                        \/ /\ accepted[b][k].site = p
                           /\ accepted[b][k].distance <= t[1]

\* A finished build in which a pair of the second site was turned down
\* because of a pair of the first site, and every accepted pair that holds
\* one of its atoms has a strictly larger distance.
C4_Witness ==
    /\ pc[1] = "done"
    /\ Len(positions_A) = 2
    /\ \E t \in Rejected(1, positions_A[2]) :
          /\ \E k \in Blockers(1, t) : accepted[1][k].site = positions_A[1]
          /\ \A k \in Blockers(1, t) : accepted[1][k].distance > t[1]

\* C5 as stated: a build given more than two building blocks places nothing:
\* its composite molecule stays empty, it writes no site's heavy_ids, its
\* usage tally stays empty and it never gets to join_mols.
C5_ExtraBlocksRejected ==
    \A b \in Builds :
        Len(building_blocks[b]) > 2 =>
            /\ heavy_mol[b] = <<>>
            /\ \A s \in Sites : writer[s].heavy_ids # b
            /\ \A n \in BlockNames : bb_counter[b][n] = 0
            /\ pc[b] \in {"ready", "placeA", "failed"}

\* C6 as stated: no site that a build has placed a block on has an empty
\* heavy_ids list.
C6_NoPlacedSiteWithoutHeavyIds ==
    \A b \in Builds : \A s \in Sites :
        writer[s].heavy_ids = b => heavy_ids[s] # <<>>

\* The sites whose place_mol is Vertex.place_mol and that have fewer than 3
\* connected sites.
ThinVertices == { s \in Sites : ~IsEdge(s) /\ Len(connected[s]) < 3 }

\* The sites of positions_A that build b has got past.
PlacedA(b) ==
    CASE pc[b] = "ready" -> {}
      [] pc[b] \in {"placeA", "failed"} /\ Len(stages[b]) = 1 ->
            { positions_A[i] : i \in 1..(idx[b] - 1) }
      [] OTHER -> Range(positions_A)

\* C8 as stated: a build that stops at a vertex with fewer than 3 connected
\* sites stops with a GeometryError.
C8_GeometryError ==
    \A b \in Builds :
        (/\ pc[b] = "failed"
         /\ stages[b] = <<"place_mols">>
         /\ idx[b] \in DOMAIN positions_A
         /\ positions_A[idx[b]] \in ThinVertices)
            => err[b] = "GeometryError"

\* C8, amended: edge_plane_normal on a vertex with 0, 1 or 2 connected sites
\* raises ValueError (the unpacking of two direction vectors fails) and
\* returns nothing.  The build stops there: the building block has not been
\* moved, neither to the origin nor to the site, nothing of it is in the
\* composite molecule, and no build gets past such a vertex.
C8_ValueError ==
    \A b \in Builds :
        /\ PlacedA(b) \cap ThinVertices = {}
        /\ \A s \in ThinVertices :
              /\ writer[s].heavy_ids = 0
              /\ \A n \in BlockNames : bb_centroid[b][n] # s
        /\ (pc[b] = "placeA" /\ positions_A[idx[b]] \in ThinVertices) =>
              /\ heavy_mol[b] = <<>>
              /\ bb_centroid[b][role[b].bb] = "initial"
        /\ err[b] = "ValueError" <=>
              /\ pc[b] = "failed"
              /\ stages[b] = <<"place_mols">>
              /\ positions_A[idx[b]] \in ThinVertices
              /\ heavy_mol[b] = <<>>
              /\ bb_centroid[b][role[b].bb] = "initial"
              /\ \A n \in BlockNames : bb_counter[b][n] = 0

\* A build stopped by the ValueError at a vertex that has two connected
\* sites, hence one direction vector.
C8_Witness ==
    /\ pc[1] = "failed"
    /\ err[1] = "ValueError"
    /\ Len(connected[positions_A[idx[1]]]) = 2
    /\ bb_centroid[1][role[1].bb] = "initial"

\* The stages of build(), in the order build() calls them.
BuildStages == <<"place_mols", "join_mols", "final_sub">>

\* Build b has placed a block on every site of positions_A and positions_B.
AllPlaced(b) ==
    /\ \A s \in Range(positions_A) \cup Range(positions_B) : writer[s].heavy_ids = b
    /\ bb_counter[b][role[b].bb] = Len(positions_A)
    /\ bb_counter[b][role[b].lk] = Len(positions_B)

\* C9: the stages of a build run in the order place_mols, join_mols,
\* final_sub, each at most once; a bond exists only when every site of
\* positions_A and positions_B has been placed; the substitution happens only
\* when join_mols has handed over its bonds; a failed build runs no further
\* stage and changes nothing any more.
C9_StagesInOrder ==
    /\ [](\A b \in Builds :
            /\ \E n \in 0..Len(BuildStages) : stages[b] = SubSeq(BuildStages, 1, n)
            /\ (editable_mol[b] # <<>> \/ heavy_bonds[b] # <<>> \/ bonds_made[b] > 0)
                  => AllPlaced(b) /\ Len(stages[b]) >= 2
            /\ (prist_mol[b] # <<>> \/ Len(stages[b]) = 3)
                  => /\ pc[b] = "done"
                     /\ AllPlaced(b)
                     /\ heavy_bonds[b] = editable_mol[b])
    /\ [][\A b \in Builds :
            pc[b] = "failed" =>
                /\ pc'[b] = "failed"
                /\ stages'[b] = stages[b]
                /\ heavy_mol'[b] = heavy_mol[b]
                /\ heavy_bonds'[b] = heavy_bonds[b]
                /\ editable_mol'[b] = editable_mol[b]
                /\ prist_mol'[b] = prist_mol[b]
                /\ bonds_made'[b] = bonds_made[b]]_vars

\* A build that has run all three stages, with bonds and substituted atoms.
C9_Witness ==
    /\ pc[1] = "done"
    /\ stages[1] = BuildStages
    /\ heavy_bonds[1] # <<>>
    /\ prist_mol[1] # <<>>
    /\ prist_mol[1] # heavy_mol[1]

\* Atom a of the composite molecule of build b is an atom of an element that
\* is no placeholder element of the registry.
Unregistered(b, a) ==
    /\ a + 1 \in DOMAIN heavy_mol[b]
    /\ heavy_mol[b][a + 1] \notin heavy_atomic_nums

\* The candidates of the site build b is bonding at that determine_bond_type
\* cannot answer: both atoms unclaimed, one of them unregistered.
OpenUnregistered(b) ==
    { t \in Range(distances[positions_A[idx[b]]]) :
        /\ t[2] + 1 \in DOMAIN heavy_mol[b]
        /\ t[3] + 1 \in DOMAIN heavy_mol[b]
        /\ Unregistered(b, t[2]) \/ Unregistered(b, t[3])
        /\ t[2] \notin paired[b]
        /\ t[3] \notin paired[b] }

C10_NoSharedState ==
    \A b \in Builds : ~foreign_read[b]

\* The first and the second keys that occur in a list of candidates.
KeysA(cands) == { cands[i][2] : i \in DOMAIN cands }

KeysB(cands) == { cands[i][3] : i \in DOMAIN cands }

\* No first key and no second key occurs in two candidates of the list.
DistinctKeys(cands) ==
    \A i, j \in DOMAIN cands :
        i # j => cands[i][2] # cands[j][2] /\ cands[i][3] # cands[j][3]

\* C11: the matching of pair_heavy_ids_with_connected, on any list of
\* candidates, gives no heavy id and no position to two accepted pairs, so it
\* accepts at most as many pairs as there are distinct heavy ids and at most
\* as many as there are distinct positions.
C11_NoKeyAssignedTwice ==
    (call.fn = "match" /\ call.runs >= 1) =>
        LET pairs == call.res.pairs
        IN  /\ \A i, j \in DOMAIN pairs :
                  i # j => pairs[i][1] # pairs[j][1] /\ pairs[i][2] # pairs[j][2]
            /\ Len(pairs) <= Cardinality(KeysA(call.arg))
            /\ Len(pairs) <= Cardinality(KeysB(call.arg))

\* A call that turned down one candidate for its heavy id and another for
\* its position.
C11_Witness ==
    /\ call.fn = "match"
    /\ call.runs = 1
    /\ call.res.err = "none"
    /\ Len(call.res.pairs) = 1
    /\ \E i, j \in DOMAIN call.arg :
          /\ call.arg[i][2] = call.res.pairs[1][1]
          /\ call.arg[i][3] # call.res.pairs[1][2]
          /\ call.arg[j][2] # call.res.pairs[1][1]
          /\ call.arg[j][3] = call.res.pairs[1][2]

\* C12: on candidates whose first keys are pairwise distinct and whose second
\* keys are pairwise distinct, either matching loop accepts every candidate;
\* run again on the pairs it accepted, it returns the same set of pairs.
C12_Idempotent ==
    /\ (call.runs >= 1 /\ DistinctKeys(call.arg)) =>
          /\ call.res.err = "none"
          /\ Len(call.res.pairs) = Len(call.arg)
          /\ Range(call.res.pairs) = { <<c[2], c[3]>> : c \in Range(call.arg) }
    /\ call.runs = 2 =>
          /\ DistinctKeys(call.arg)
          /\ Range(call.res.pairs) = Range(call.first)

\* A second run on the two pairs the first run accepted.
C12_Witness ==
    /\ call.fn = "match"
    /\ call.runs = 2
    /\ Len(call.first) = 2
    /\ Len(call.res.pairs) = 2

\* place_mols of build b has returned.
PlaceMolsReturned(b) == pc[b] \in {"join", "bond", "sub", "done"}

\* C13 as stated: when place_mols has returned, every heavy id of every site
\* of positions_A is in exactly one pair of the site's atom_position_pairs,
\* and the position of that pair is connected to the site.
C13_EveryHeavyIdPaired ==
    \A b \in Builds :
        PlaceMolsReturned(b) =>
            \A p \in Range(positions_A) : \A h \in Range(heavy_ids[p]) :
                /\ Cardinality({ k \in DOMAIN atom_position_pairs[p] :
                                   atom_position_pairs[p][k][1] = h }) = 1
                /\ \A k \in DOMAIN atom_position_pairs[p] :
                      atom_position_pairs[p][k][1] = h
                        => atom_position_pairs[p][k][2] \in Range(connected[p])

\* What final_sub has to have done to the molecule of the call: the atoms
\* of a placeholder element carry a target the registry gives for it, the
\* others are as they were, and no atom carries a placeholder element.
RoundTrip ==
    /\ Len(call.res) = Len(call.arg)
    /\ \A i \in DOMAIN call.arg :
          /\ call.res[i] \notin HeavyNumsOf(call.registry)
          /\ IF call.arg[i] \in HeavyNumsOf(call.registry)
             THEN \E k \in DOMAIN call.registry :
                     /\ call.registry[k].heavy_atomic_num = call.arg[i]
                     /\ call.registry[k].target_atomic_num = call.res[i]
             ELSE call.res[i] = call.arg[i]

TargetsArePristine(registry) ==
    \A k \in DOMAIN registry : registry[k].target_atomic_num \notin HeavyNumsOf(registry)

MoreGroups(b) ==
    IF NumFunctionalGroups(building_blocks[b][1]) > NumFunctionalGroups(building_blocks[b][2])
    THEN building_blocks[b][1] ELSE building_blocks[b][2]

FewerGroups(b) ==
    IF NumFunctionalGroups(building_blocks[b][1]) > NumFunctionalGroups(building_blocks[b][2])
    THEN building_blocks[b][2] ELSE building_blocks[b][1]

\* The placeholder atoms recorded for site s are, in the molecule of build
\* b, the placeholder atoms of one copy of the block.
HoldsBlock(b, s, block) ==
    /\ Len(heavy_ids[s]) = NumFunctionalGroups(block)
    /\ \A k \in DOMAIN heavy_ids[s] :
          /\ heavy_ids[s][k] + 1 \in DOMAIN heavy_mol[b]
          /\ heavy_mol[b][heavy_ids[s][k] + 1]
               = BlockAtoms(block)[BlockHeavyIds(block)[k] + 1]

\* C15: when the reactive-group counts of the two building blocks differ,
\* place_mols puts the block with more groups on every site of positions_A
\* and the block with fewer on every site of positions_B, in whichever order
\* the two were supplied.
C15_MoreGroupsOnPositionsA ==
    \A b \in Builds :
        (/\ PlaceMolsReturned(b)
         /\ NumFunctionalGroups(building_blocks[b][1])
              # NumFunctionalGroups(building_blocks[b][2]))
            => /\ role[b].bb = MoreGroups(b)
               /\ role[b].lk = FewerGroups(b)
               /\ bb_counter[b][MoreGroups(b)] = Len(positions_A)
               /\ bb_counter[b][FewerGroups(b)] = Len(positions_B)
               /\ \A s \in Range(positions_A) : HoldsBlock(b, s, MoreGroups(b))
               /\ \A s \in Range(positions_B) : HoldsBlock(b, s, FewerGroups(b))
               /\ Len(heavy_mol[b])
                    = Len(positions_A) * Len(BlockAtoms(MoreGroups(b)))
                        + Len(positions_B) * Len(BlockAtoms(FewerGroups(b)))

\* The dimer placed from building blocks supplied linker first.
C15_Witness ==
    /\ IsDimer
    /\ PlaceMolsReturned(1)
    /\ building_blocks[1] = <<"linker2", "core3">>
    /\ bb_counter[1]["core3"] = 2
    /\ bb_counter[1]["linker2"] = 1

\* The placeholder symbol the registry gives for an atomic number.
SymbolOf(atomic_n) ==
    LET k == CHOOSE i \in DOMAIN functional_group_list :
                 /\ functional_group_list[i].heavy_atomic_num = atomic_n
                 /\ \A j \in 1..(i - 1) :
                       functional_group_list[j].heavy_atomic_num # atomic_n
    IN  functional_group_list[k].heavy_symbol

\* C16: for two atoms of registered placeholder elements determine_bond_type
\* returns DOUBLE exactly when the set of their two symbols is that of an
\* entry of the double-bond combinations, and SINGLE otherwise; called with
\* the two atom ids swapped it returns the same.
C16_DoubleExactlyForListedPairs ==
    (call.fn = "determine_bond_type" /\ call.runs >= 1) =>
        LET n1 == call.mol[call.atom1_id + 1]
            n2 == call.mol[call.atom2_id + 1]
        IN  /\ (n1 \in heavy_atomic_nums /\ n2 \in heavy_atomic_nums) =>
                  /\ call.res \in {"SINGLE", "DOUBLE"}
                  /\ call.res = "DOUBLE" <=>
                        \E tup \in call.combs :
                            {tup[1], tup[2]} = {SymbolOf(n1), SymbolOf(n2)}
            /\ call.runs = 2 => call.swapped = call.res

\* Both orders asked for a pair whose symbols are listed in the other order
\* only.
C16_Witness ==
    /\ call.fn = "determine_bond_type"
    /\ call.runs = 2
    /\ call.res = "DOUBLE"
    /\ call.mol[call.atom1_id + 1] = 39
    /\ call.mol[call.atom2_id + 1] = 45
    /\ call.combs = { <<"Rh", "Y">> }

\* The first three connected edges of the call do not lie on one line.
NonCollinear ==
    Cross(VecSub(call.connected[1], call.connected[2]),
          VecSub(call.connected[1], call.connected[3])) # ZeroVec

\* C17: when the connected edges of a site do not lie on one line, the vector
\* edge_plane_normal returns has a non-negative dot product with the
\* coordinate of the first connected edge, and it is the negated cross
\* product exactly when the cross product has a negative dot product with
\* that coordinate (an angle above 90 degrees), the cross product otherwise.
C17_NormalPointsAway ==
    (call.fn = "edge_plane_normal" /\ call.runs = 1 /\ NonCollinear) =>
        LET raw == Cross(VecSub(call.connected[1], call.connected[2]),
                         VecSub(call.connected[1], call.connected[3]))
            first == call.connected[1]
        IN  /\ call.res.defined
            /\ Dot(call.res.normal, first) >= 0
            /\ call.res.normal = IF Dot(raw, first) < 0 THEN Negated(raw) ELSE raw

\* A call that negated the cross product of three edges not on one line.
C17_Witness ==
    /\ call.fn = "edge_plane_normal"
    /\ call.runs = 1
    /\ NonCollinear
    /\ call.res.defined
    /\ Dot(call.res.normal, call.connected[1]) > 0
    /\ call.res.normal =
          Negated(Cross(VecSub(call.connected[1], call.connected[2]),
                        VecSub(call.connected[1], call.connected[3])))

RECURSIVE DepthFirst(_)
\* The direct members of a population in order, then the members of each
\* subpopulation in turn, nested ones likewise.
DepthFirst(pop) ==
    LET RECURSIVE Subs(_)
        Subs(k) == IF k > Len(pop.subpopulations)
                   THEN <<>>
                   ELSE DepthFirst(pop.subpopulations[k]) \o Subs(k + 1)
    IN  pop.direct_members \o Subs(1)

\* C18: iterating a population yields its direct members in order and then
\* the members of its subpopulations depth-first, as many members as
\* len(population) counts, and a molecule held anywhere in the population
\* is reported as contained.
C18_IterationDepthFirst ==
    call.fn = "iter" =>
        /\ call.runs >= 1 =>
              /\ call.err = "none"
              /\ call.yielded = DepthFirst(call.pop)
        /\ call.runs >= 2 => Len(call.yielded) = call.size
        /\ (call.runs = 3 /\ call.item \in Range(DepthFirst(call.pop))) =>
              /\ call.contains_err = "none"
              /\ call.contained

\* C19: pop1 - pop2 is a population without subpopulations whose direct
\* members are the molecules held by pop1, directly or nested, that pop2
\* does not hold.
C19_SubIsFlatDifference ==
    (call.fn = "sub" /\ call.runs = 1) =>
        /\ call.res.subpopulations = <<>>
        /\ Range(call.res.direct_members)
              = Range(DepthFirst(call.pop1)) \ Range(DepthFirst(call.pop2))

\* C20: loading what dump wrote gives a population with the nesting and the
\* members, in order, of the dumped population.
C20_DumpLoadRoundTrip ==
    (call.fn = "dump" /\ call.runs = 2) =>
        /\ call.res.err = "none"
        /\ call.res.pop = call.pop

RECURSIVE InsertByDistance(_, _)
InsertByDistance(sorted, t) ==
    IF sorted = <<>> THEN <<t>>
    ELSE IF t[1] < sorted[Len(sorted)][1]
         THEN Append(InsertByDistance(SubSeq(sorted, 1, Len(sorted) - 1), t),
                     sorted[Len(sorted)])
         ELSE Append(sorted, t)

RECURSIVE StableByDistance(_)
\* The candidates by ascending distance, equal distances in the order the
\* candidates were appended.
StableByDistance(seq) ==
    IF seq = <<>> THEN <<>>
    ELSE InsertByDistance(StableByDistance(SubSeq(seq, 1, Len(seq) - 1)), seq[Len(seq)])

\* C21: equal-distance candidates are taken in the order they were appended,
\* in both passes: no tie makes the first pass raise, and the bonds the
\* second pass adds for a site are those a sort by distance alone, stable in
\* the order of insertion, gives.
C21_StableByInputOrder ==
    \A b \in Builds :
        /\ err[b] # "TypeError"
        /\ pc[b] = "bond" =>
              LET position == positions_A[idx[b]]
                  st == [bonds |-> editable_mol[b], paired |-> paired[b],
                         made |-> bonds_made[b], err |-> "none", log |-> accepted[b]]
              IN  BondSite(heavy_mol[b], position, distances[position], st).bonds
                    = BondLoop(heavy_mol[b], position,
                               StableByDistance(distances[position]), 1, st).bonds

\* Every site of positions_A has n connections, each of them a site of
\* positions_B that joins two sites of positions_A.
RegularTopology(n) ==
    \A p \in Range(positions_A) :
        /\ Len(connected[p]) = n
        /\ \A k \in DOMAIN connected[p] :
              LET e == connected[p][k]
              IN  /\ e \in Range(positions_B)
                  /\ Len(connected[e]) = 2
                  /\ connected[e][1] # connected[e][2]
                  /\ Range(connected[e]) \subseteq Range(positions_A)

JoinMolsReturned(b) == pc[b] \in {"sub", "done"}

\* C22: on a topology whose positions_A sites have N connections each, all
\* of them positions_B sites between two positions_A sites, built from a core
\* block with N reactive groups and a linker with 2, every placeholder atom
\* of every site is an endpoint of exactly one bond when join_mols has
\* returned, and bonds_made = N * |positions_A| = 2 * |positions_B|.
C22_PerfectMatching ==
    \A b \in Builds :
        (/\ JoinMolsReturned(b)
         /\ role[b].n_lk = 2
         /\ RegularTopology(role[b].n_bb))
            => /\ \A s \in Range(positions_A) \cup Range(positions_B) :
                     \A a \in Range(heavy_ids[s]) :
                         EndpointCount(heavy_bonds[b], a) = 1
               /\ bonds_made[b] = role[b].n_bb * Len(positions_A)
               /\ bonds_made[b] = 2 * Len(positions_B)

\* The tetrahedron built, where two vertices had the same atom of the edge
\* between them nearest and the second vertex took the other atom.
C22_Witness ==
    /\ pc[1] = "done"
    /\ RegularTopology(3)
    /\ bonds_made[1] = 12
    /\ \E t \in Rejected(1, "V2") :
          /\ \A u \in Range(distances["V2"]) : u[2] = t[2] => t[1] <= u[1]
          /\ t[1] < MaxDist

\* The neighbours the first matching pass gave atom a of site p.
AssignedNeighbours(p, a) ==
    { atom_position_pairs[p][k][2] :
        k \in { j \in DOMAIN atom_position_pairs[p] : atom_position_pairs[p][j][1] = a } }

\* C23: every bond join_mols adds runs from a placeholder atom a of a site p
\* of positions_A to a placeholder atom of the one neighbour n that the first
\* pass paired a with; n is connected to p, and the other end of the bond is
\* no atom of any other connection of p.
C23_BondsFollowAtomPositionPairs ==
    \A b \in Builds :
        /\ BondPairs(editable_mol[b])
             = { <<accepted[b][k].atom1, accepted[b][k].atom2>> : k \in DOMAIN accepted[b] }
        /\ \A k \in DOMAIN accepted[b] :
              LET p == accepted[b][k].site
                  a == accepted[b][k].atom1
                  a2 == accepted[b][k].atom2
              IN  /\ p \in Range(positions_A)
                  /\ a \in Range(heavy_ids[p])
                  /\ Cardinality(AssignedNeighbours(p, a)) = 1
                  /\ \A n \in AssignedNeighbours(p, a) :
                        /\ n \in Range(connected[p])
                        /\ a2 \in Range(heavy_ids[n])
                  /\ \A m \in Range(connected[p]) \ AssignedNeighbours(p, a) :
                        a2 \notin Range(heavy_ids[m])

\* All twelve bonds of the tetrahedron are made and the three bonds
\* accepted on V1 go to its three different neighbours, one atom each.
C23_Witness ==
    /\ pc[1] = "done"
    /\ Len(accepted[1]) = 12
    /\ LET onV1 == { k \in DOMAIN accepted[1] : accepted[1][k].site = "V1" }
       IN  /\ Cardinality(onV1) = 3
           /\ UNION { AssignedNeighbours("V1", accepted[1][k].atom1) : k \in onV1 }
                 = {"E", "e1", "e2"}

\* The ids (0-based) of the placeholder atoms of a molecule.
PlaceholderIds(mol) ==
    { i \in 0..(Len(mol) - 1) : mol[i + 1] \in heavy_atomic_nums }

\* ids lists, in ascending order, the n highest-index placeholder atoms of mol.
IsNewest(ids, mol, n) ==
    /\ Range(ids) \subseteq PlaceholderIds(mol)
    /\ Len(ids) = IF Cardinality(PlaceholderIds(mol)) < n
                  THEN Cardinality(PlaceholderIds(mol)) ELSE n
    /\ \A i, j \in DOMAIN ids : i < j => ids[i] < ids[j]
    /\ \A h \in PlaceholderIds(mol) \ Range(ids) : \A k \in DOMAIN ids : h < ids[k]

\* A step of build b in which a block was put on a site: the site and the block.
PlacedSite(b) ==
    IF pc[b] = "placeA" THEN positions_A[idx[b]] ELSE positions_B[idx[b]]

PlacedBlock(b) ==
    IF pc[b] = "placeA" THEN role[b].bb ELSE role[b].lk

PlacedStep(b) ==
    /\ pc[b] \in {"placeA", "placeB"}
    /\ heavy_mol'[b] # heavy_mol[b]

\* C24: right after a site is placed its heavy_ids are the N highest-index
\* placeholder atoms of the composite at that moment, ascending, N being the
\* reactive-group count of the block placed; and when place_mols has
\* returned, every block having brought exactly N placeholder atoms, the
\* heavy_ids of different sites are pairwise disjoint and together are the
\* placeholder atoms of the composite.
C24_HeavyIdsAreNewest ==
    /\ [][\A b \in Builds :
            PlacedStep(b) =>
                IsNewest(heavy_ids'[PlacedSite(b)], heavy_mol'[b],
                         NumFunctionalGroups(PlacedBlock(b)))]_vars
    /\ [](\A b \in Builds :
            (/\ PlaceMolsReturned(b)
             /\ \A k \in DOMAIN building_blocks[b] :
                   Len(BlockHeavyIds(building_blocks[b][k]))
                     = NumFunctionalGroups(building_blocks[b][k]))
                => /\ \A p, q \in Sites :
                         p # q => Range(heavy_ids[p]) \cap Range(heavy_ids[q]) = {}
                   /\ UNION { Range(heavy_ids[p]) : p \in Sites }
                        = PlaceholderIds(heavy_mol[b]))

\* The dimer placed from core3, whose last atom is no placeholder, and
\* linker2: the three sites hold the placeholder atoms of their own block.
C24_Witness ==
    /\ IsDimer
    /\ PlaceMolsReturned(1)
    /\ heavy_mol[1] = <<45, 45, 45, 6, 45, 45, 45, 6, 39, 39>>
    /\ heavy_ids["V1"] = <<0, 1, 2>>
    /\ heavy_ids["V2"] = <<4, 5, 6>>
    /\ heavy_ids["E"] = <<8, 9>>


\* C25: a call of place_mol on a site, of a Vertex or of an Edge, empties the
\* site's distances and leaves its coord, connected, heavy_ids and
\* atom_position_pairs, and every field of every other site, as they were;
\* no bond is added to any molecule and no count of bonds changes.
C25_PlaceMolOnlyFlushesDistances ==
    [][(call.fn = "none" /\ call'.fn = "place_mol") =>
          /\ distances'[call'.site] = <<>>
          /\ \A s \in Sites \ {call'.site} : distances'[s] = distances[s]
          /\ UNCHANGED <<coord, connected, heavy_ids, atom_position_pairs>>
          /\ UNCHANGED <<heavy_mol, heavy_bonds, editable_mol, paired, bonds_made>>]_vars

\* place_mol has run on V1 of the dimer after a build that bonded both
\* vertices: V1 keeps its heavy_ids and pairs and has lost its distances,
\* V2 keeps all three, and the two bonds are still the only ones.
C25_Witness ==
    /\ call.fn = "place_mol"
    /\ call.site = "V1"
    /\ call.err = "none"
    /\ IsDimer
    /\ bonds_made[1] = 2
    /\ distances["V1"] = <<>>
    /\ heavy_ids["V1"] # <<>>
    /\ atom_position_pairs["V1"] # <<>>
    /\ distances["V2"] # <<>>

\* The same on the edge E, whose place_mol draws a sign.
C25_WitnessEdge ==
    /\ call.fn = "place_mol"
    /\ call.site = "E"
    /\ call.err = "none"
    /\ heavy_ids["E"] # <<>>
    /\ distances["V1"] # <<>>


\* C27: final_sub changes only the pristine copy: across the step from the
\* return of join_mols to the return of final_sub, heavy_mol keeps its
\* atoms, placeholder elements included, and its bonds, and bonds_made and
\* bb_counter keep their values, while prist_mol becomes the substituted
\* copy.
C27_FinalSubLeavesHeavyMol ==
    [][\A b \in Builds :
          (pc[b] = "sub" /\ pc'[b] = "done") =>
              /\ heavy_mol'[b] = heavy_mol[b]
              /\ PlaceholderIds(heavy_mol'[b]) = PlaceholderIds(heavy_mol[b])
              /\ heavy_bonds'[b] = heavy_bonds[b]
              /\ bonds_made'[b] = bonds_made[b]
              /\ bb_counter'[b] = bb_counter[b]
              /\ PlaceholderIds(prist_mol'[b]) = {}
              /\ Len(prist_mol'[b]) = Len(heavy_mol[b])]_vars

\* A dimer whose final_sub has returned: the pristine copy has lost the
\* eight placeholder atoms heavy_mol still has, next to its two bonds.
C27_Witness ==
    /\ pc[1] = "done"
    /\ IsDimer
    /\ bonds_made[1] = 2
    /\ Len(heavy_bonds[1]) = 2
    /\ Cardinality(PlaceholderIds(heavy_mol[1])) = 8
    /\ PlaceholderIds(prist_mol[1]) = {}
    /\ bb_counter[1]["core3"] = 2


\* How many times site a occurs in a connected list.
Occurrences(conn, a) == Cardinality({ k \in DOMAIN conn : conn[k] = a })

\* The call that was made in this step, when one was.
LastCreated == call'.created[Len(call'.created)]

\* C28: after any sequence of Vertex, Edge and vertex_init calls, site a
\* occurs in b.connected as many times as b occurs in a.connected, for all
\* sites a and b; and the site an Edge or vertex_init call has just made is
\* connected to exactly the sites it was built from, in the order given.
C28_ConnectivitySymmetric ==
    /\ [](call.fn = "class_body" =>
            \A a, b \in Sites :
                Occurrences(connected[b], a) = Occurrences(connected[a], b))
    /\ [][(call.fn = "class_body" /\ call'.created # call.created
             /\ LastCreated.fn \in {"Edge", "vertex_init"})
            => connected'[LastCreated.site] = LastCreated.args]_vars

\* A class body that has made an edge from one vertex taken twice and a
\* vertex from that vertex and the edge: the vertex holds the edge twice.
C28_Witness ==
    /\ call.fn = "class_body"
    /\ \E i, j \in DOMAIN call.created :
          /\ call.created[i].fn = "Edge"
          /\ call.created[i].args[1] = call.created[i].args[2]
          /\ Occurrences(connected[call.created[i].args[1]], call.created[i].site) = 2
          /\ call.created[j].fn = "vertex_init"
          /\ call.created[j].args = <<call.created[i].args[1], call.created[i].site>>


\* C30 as stated: edge_plane on a vertex with at least three connected
\* sites returns (a, b, c, d), (a, b, c) being edge_plane_normal() and d
\* being -(normal . point) for the coordinate of one connected site; it
\* returns and does not raise.
C30_EdgePlaneReturnsCoefficients ==
    (call.fn = "edge_plane" /\ call.runs = 1 /\ Len(call.connected) >= 3) =>
        LET normal == EdgePlaneNormal(call.connected).normal
        IN  /\ call.res.err = "none"
            /\ Len(call.res.value) = 4
            /\ SubSeq(call.res.value, 1, 3) = normal
            /\ \E k \in DOMAIN call.connected :
                  call.res.value[4] = 0 - Dot(normal, call.connected[k])


\* Both builds of the sequence have returned, the caller having read the
\* sites between them.
BothBuilt == call.fn = "observed" /\ pc[1] = "done" /\ pc[2] = "done"

C26_SignMatters ==
    /\ BothBuilt
    /\ building_blocks[1] = building_blocks[2]
    /\ flip[1]["E"] # flip[2]["E"]
    /\ flip[1]["e1"] = flip[2]["e1"]
    /\ flip[1]["e2"] = flip[2]["e2"]
    /\ BondPairs(heavy_bonds[1]) # BondPairs(heavy_bonds[2])


\* What build b leaves when it runs on sites no build has used: the heavy
\* ids of every site, ...
FreshHeavyIds(b) ==
    PlacedHeavyIds(AssignRoles(building_blocks[b][1], building_blocks[b][2]),
                   positions_A, positions_B)

\* ... the pairs of every site of positions_A, ...
FreshPairs(b) ==
    [s \in Sites |->
        IF s \in Range(positions_A)
        THEN LET ids == FreshHeavyIds(b)[s]
                 atom_coords ==
                    [h \in Range(ids) |->
                        LET k == CHOOSE k \in DOMAIN ids : ids[k] = h
                        IN  << coord[s][1] + call.offset[k][1],
                               coord[s][2] + call.offset[k][2] >>]
             IN  PairHeavyIdsWithConnected(ids, connected[s], atom_coords, coord).pairs
        ELSE <<>>]

\* ... the distance of a candidate of join_mols, given the heavy ids hids
\* of the sites and the signs b drew, ...
FreshDistance(b, hids, c) ==
    LET p == CHOOSE s \in Sites : c[1] \in Range(hids[s])
        v == CHOOSE s \in Sites : c[2] \in Range(hids[s])
        k1 == CHOOSE k \in DOMAIN hids[p] : hids[p][k] = c[1]
        k2 == CHOOSE k \in DOMAIN hids[v] : hids[v][k] = c[2]
        leading == IF flip[b][v] = 1 THEN 1 ELSE Len(hids[v])
    IN  IF k2 = leading THEN call.dist[k1] ELSE MaxDist + 1 - call.dist[k1]

\* ... the distances of every site of positions_A, ...
FreshDistances(b) ==
    LET hids == FreshHeavyIds(b)
        pairs == FreshPairs(b)
    IN  [s \in Sites |->
            IF s \in Range(positions_A)
            THEN LET cands == SiteCandidates(pairs[s], hids)
                 IN  [k \in DOMAIN cands |->
                        <<FreshDistance(b, hids, cands[k]), cands[k][1], cands[k][2]>>]
            ELSE <<>>]

\* ... and the bonds and their count after the first i sites of
\* positions_A, dists being the distances of the sites.
RECURSIVE FreshBonds(_, _, _)
FreshBonds(b, dists, i) ==
    IF i = 0
    THEN [bonds |-> <<>>, paired |-> {}, made |-> InitialBondsMade, err |-> "none",
          log |-> <<>>]
    ELSE BondSite(heavy_mol[b], positions_A[i], dists[positions_A[i]],
                  FreshBonds(b, dists, i - 1))

\* Build b has just returned: it is the first build and the second has not
\* begun, or it is the second.
JustBuilt(b) ==
    /\ call.fn \in {"geometry", "observed"}
    /\ pc[b] = "done"
    /\ b = 1 => pc[2] = "ready"

\* C29: a build run on sites a finished build has used leaves the same
\* heavy_ids, atom_position_pairs, distances, bonds and bonds_made as the
\* build leaves on fresh sites, whatever blocks the earlier build used and
\* whatever signs it drew; and no step of a build changes the coord or the
\* connected list of a site.
C29_UsedSitesAsFresh ==
    /\ [](\A b \in Builds :
            JustBuilt(b) =>
                LET dists == FreshDistances(b)
                    joined == FreshBonds(b, dists, Len(positions_A))
                IN  /\ heavy_ids = FreshHeavyIds(b)
                    /\ atom_position_pairs = FreshPairs(b)
                    /\ distances = dists
                    /\ BondPairs(heavy_bonds[b]) = BondPairs(joined.bonds)
                    /\ bonds_made[b] = joined.made)
    /\ [][call.fn \in {"geometry", "observed"}
            => (coord' = coord /\ connected' = connected)]_vars

\* The second build has returned from core3 and linker2 on sites the first
\* build used with core3b, other heavy ids and other signs.
C29_Witness ==
    /\ BothBuilt
    /\ building_blocks[1] = <<"core3b", "linker2">>
    /\ call.observed.heavy_ids["V1"] = <<1, 2, 3>>
    /\ heavy_ids["V1"] = <<0, 1, 2>>
    /\ call.observed.distances["V1"] # <<>>
    /\ call.observed.distances["V1"] # distances["V1"]
    /\ flip[1] # flip[2]
    /\ bonds_made[2] = 3

=============================================================================
